---- MODULE Spec2Model ----
(***************************************************************************)
(* A model of the Hexagon-E virtual machine (src/src/vm.rs) together with  *)
(* the tape (src/src/tape.rs), the module framing and opcode decoding      *)
(* (src/src/module.rs), the error kinds (src/src/error.rs) and an          *)
(* environment implementing src/src/environment.rs.                        *)
(*                                                                         *)
(* Numbers.  A Rust u8 is a number 0..255.  A u32 is a tuple of 4 bytes    *)
(* and an i64/u64/usize a tuple of 8 bytes, least significant byte first,  *)
(* so that every width keeps all of its bits (the model checker's own      *)
(* integers are narrower than a u32).  usize is taken to be 64 bits wide.  *)
(* Arithmetic is done byte by byte; shifts, rotations and bit counts are    *)
(* done on bit sequences, least significant bit first.                     *)
(***************************************************************************)
EXTENDS Integers, Sequences, FiniteSets, TLC

\* The state of the machine that the later sections define.
VARIABLES
  image,       \* the module image the host has read, and what Module::from_raw returned
               \* for it ("NotLoaded" before the call)
  code,        \* the tape over module.code that run reads (Tape::from at its start)
  mi,          \* module.memory_initializers
  stack,       \* env.get_stack(): the operand stack tape
  callStack,   \* env.get_call_stack(): the call stack tape
  mem,         \* env.get_memory()
  slots,       \* env.get_slots()
  fuse,        \* VirtualMachine.reset_slots_fuse
  fuel,        \* the host's opcode budget (-1: none)
  res,         \* "NotStarted", "Running", or what the last run returned
  initRes,     \* "Skipped" (the host does not call run_memory_initializers), "NotRun",
               \* or what run_memory_initializers returned
  runs,        \* how many times run was called
  resetCalls,  \* how many times env.reset_slots was called
  lastOp,      \* the opcode the last iteration of run decoded ("" if none)
  frames,      \* the calls that have not returned: what each Call found and left
  twin         \* a second VM built from the same module on an environment with the
               \* same contents (on: whether the host builds one), how often it was
               \* run, and how many steps it is ahead of the first

vars ==
  <<image, code, mi, stack, callStack, mem, slots, fuse, fuel, res, initRes, runs,
    resetCalls, lastOp, frames, twin>>

(***************************************************************************)
(* Bit-level arithmetic on fixed-width words                               *)
(***************************************************************************)

\* The function f over 1..n as the tuple of its values.
Tup(f) == f \o <<>>

\* The bits of the byte tuple w, least significant first.
ToBits(w) ==
  Tup([i \in 1..(8 * Len(w)) |-> (w[((i - 1) \div 8) + 1] \div (2 ^ ((i - 1) % 8))) % 2])

\* The byte tuple of the bit sequence bs (Len(bs) a multiple of 8).
FromBits(bs) ==
  Tup([j \in 1..(Len(bs) \div 8) |->
         bs[8*j - 7] + 2 * bs[8*j - 6] + 4 * bs[8*j - 5] + 8 * bs[8*j - 4]
         + 16 * bs[8*j - 3] + 32 * bs[8*j - 2] + 64 * bs[8*j - 1] + 128 * bs[8*j]])

\* n zero bytes (or bits).
ZeroBytes(n) == Tup([i \in 1..n |-> 0])

\* `x as uN` / `x as iN` to a narrower or equal width: keep the low n bytes.
Trunc(w, n) == SubSeq(w, 1, n)

\* Widening an unsigned value to n bytes: zero extension.
ZeroExt(w, n) == w \o ZeroBytes(n - Len(w))

\* The sign bit of w.
SignBit(w) == w[Len(w)] \div 128

\* Widening a signed value to n bytes: sign extension.
SignExt(w, n) == w \o Tup([i \in 1..(n - Len(w)) |-> 255 * SignBit(w)])

IsZero(w) == \A i \in 1..Len(w) : w[i] = 0

\* Bytes i.. of a + b + c modulo 256^Len(a), c the carry into byte i.
RECURSIVE AddFrom(_, _, _, _)
AddFrom(a, b, c, i) ==
  IF i > Len(a) THEN <<>>
  ELSE <<(a[i] + b[i] + c) % 256>> \o AddFrom(a, b, (a[i] + b[i] + c) \div 256, i + 1)

\* wrapping_add on byte tuples of equal length.
AddBytes(a, b) == AddFrom(a, b, 0, 1)

NotBytes(a) == Tup([i \in 1..Len(a) |-> 255 - a[i]])

\* wrapping_sub: a + ~b + 1.
SubBytes(a, b) == AddFrom(a, NotBytes(b), 1, 1)

\* wrapping_neg.
NegBytes(a) == SubBytes(ZeroBytes(Len(a)), a)

\* Unsigned a < b on byte tuples of equal length, deciding at byte i or below.
RECURSIVE LtFrom(_, _, _)
LtFrom(a, b, i) ==
  IF i = 0 THEN FALSE
  ELSE IF a[i] # b[i] THEN a[i] < b[i]
  ELSE LtFrom(a, b, i - 1)

LtBytes(a, b) == LtFrom(a, b, Len(a))

\* Signed a < b: compare with the sign bits flipped.
LtSBytes(a, b) ==
  LtBytes([a EXCEPT ![Len(a)] = (a[Len(a)] + 128) % 256],
          [b EXCEPT ![Len(b)] = (b[Len(b)] + 128) % 256])

\* Bytes i.. of a * d + c for a digit d < 256, one byte longer than a.
RECURSIVE MulDigitFrom(_, _, _, _)
MulDigitFrom(a, d, c, i) ==
  IF i > Len(a) THEN <<c>>
  ELSE <<(a[i] * d + c) % 256>> \o MulDigitFrom(a, d, (a[i] * d + c) \div 256, i + 1)

MulDigit(a, d) == MulDigitFrom(a, d, 0, 1)

\* a * (bytes j.. of b) modulo 256^Len(a).
RECURSIVE MulFrom(_, _, _)
MulFrom(a, b, j) ==
  IF j > Len(b) THEN ZeroBytes(Len(a))
  ELSE AddBytes(Trunc(MulDigit(a, b[j]), Len(a)),
                <<0>> \o Trunc(MulFrom(a, b, j + 1), Len(a) - 1))

\* wrapping_mul.
MulBytes(a, b) == MulFrom(a, b, 1)

\* The largest digit e >= d with e * b <= cur, deciding the bits k..0 of the digit.
RECURSIVE DigitFrom(_, _, _, _)
DigitFrom(cur, b, k, d) ==
  IF k < 0 THEN d
  ELSE IF LtBytes(cur, MulDigit(b, d + 2 ^ k)) THEN DigitFrom(cur, b, k - 1, d)
  ELSE DigitFrom(cur, b, k - 1, d + 2 ^ k)

\* Unsigned long division of the bytes i.. of a by b # 0: the quotient's bytes i..
\* and the remainder.
RECURSIVE DivModFrom(_, _, _)
DivModFrom(a, b, i) ==
  IF i > Len(a) THEN [q |-> <<>>, r |-> ZeroBytes(Len(a))]
  ELSE LET prev == DivModFrom(a, b, i + 1)
           cur == <<a[i]>> \o prev.r
           d == DigitFrom(cur, b, 7, 0)
       IN  [q |-> <<d>> \o prev.q, r |-> Trunc(SubBytes(cur, MulDigit(b, d)), Len(a))]

DivUBytes(a, b) == DivModFrom(a, b, 1).q
RemUBytes(a, b) == DivModFrom(a, b, 1).r

IsNegative(a) == a[Len(a)] >= 128
AbsBytes(a) == IF IsNegative(a) THEN NegBytes(a) ELSE a

\* Signed wrapping_div, truncating toward zero (MIN / -1 wraps to MIN).
DivSBytes(a, b) ==
  LET q == DivUBytes(AbsBytes(a), AbsBytes(b))
  IN  IF IsNegative(a) # IsNegative(b) THEN NegBytes(q) ELSE q

\* Signed wrapping_rem: the sign of the dividend (MIN % -1 = 0).
RemSBytes(a, b) ==
  LET r == RemUBytes(AbsBytes(a), AbsBytes(b))
  IN  IF IsNegative(a) THEN NegBytes(r) ELSE r

\* The bit sequences a and b combined bit by bit: z, o and t are the results for
\* no, one and two bits set.
BitWise(a, b, z, o, t) ==
  Tup([i \in 1..Len(a) |-> IF a[i] + b[i] = 0 THEN z ELSE IF a[i] + b[i] = 1 THEN o ELSE t])

\* a shifted left by k bit positions (0 <= k < Len(a)), zero filled.
ShlBits(a, k) == ZeroBytes(k) \o SubSeq(a, 1, Len(a) - k)

\* a shifted right by k bit positions (0 <= k < Len(a)), filled with the bit f.
ShrBits(a, k, f) == SubSeq(a, k + 1, Len(a)) \o Tup([i \in 1..k |-> f])

\* a rotated left by k bit positions (0 <= k < Len(a)).
RotlBits(a, k) == SubSeq(a, Len(a) - k + 1, Len(a)) \o SubSeq(a, 1, Len(a) - k)

\* The number of leading / trailing zero bits and of one bits.
RECURSIVE ClzFrom(_, _)
ClzFrom(a, i) == IF i = 0 \/ a[i] = 1 THEN 0 ELSE 1 + ClzFrom(a, i - 1)
RECURSIVE CtzFrom(_, _)
CtzFrom(a, i) == IF i > Len(a) \/ a[i] = 1 THEN 0 ELSE 1 + CtzFrom(a, i + 1)
RECURSIVE PopFrom(_, _)
PopFrom(a, i) == IF i > Len(a) THEN 0 ELSE a[i] + PopFrom(a, i + 1)

\* A natural number below 2^29 (a length, a position, a count) as a word of n bytes.
NatWord(v, n) == Tup([i \in 1..n |-> IF i <= 4 THEN (v \div (256 ^ (i - 1))) % 256 ELSE 0])

\* Every buffer of the model is shorter than Huge; a usize at or above it is kept
\* as Huge, which compares with every length as the value itself does.
Huge == 2 ^ 29

\* `w as usize` for a u32 or a 64-bit cell w (a negative i64 becomes a huge usize).
WordNat(w) ==
  IF (\A i \in 5..Len(w) : w[i] = 0) /\ w[4] < 32
  THEN w[1] + 256 * w[2] + 65536 * w[3] + 16777216 * w[4]
  ELSE Huge

\* The sum of two usize values, kept as Huge when it reaches Huge.
AddNat(a, b) == IF a >= Huge \/ b >= Huge \/ a + b >= Huge THEN Huge ELSE a + b

(***************************************************************************)
(* error.rs: the error kinds and their status codes                        *)
(***************************************************************************)

\* enum ExecuteError, in declaration order (Generic = 1).
ErrorKinds ==
  <<"Generic", "Bounds", "Unreachable", "IllegalOpcode", "InvalidNativeInvoke",
    "NotSupported", "InvalidInput", "ExecutionLimit", "MemoryLimit", "SlotLimit",
    "FatalSignal", "Fuse", "DivideByZero">>

Errors == {ErrorKinds[i] : i \in 1..Len(ErrorKinds)}

\* `*self as u8`: the discriminant of an error kind.
Discriminant(e) == CHOOSE i \in 1..Len(ErrorKinds) : ErrorKinds[i] = e

\* A status without the minus sign.
StatusNotNegated(e) == Discriminant(e)

\* ExecuteError::status
Status(e) == -Discriminant(e)

(***************************************************************************)
(* module.rs: the opcodes and the module framing                           *)
(***************************************************************************)

\* enum Opcode, in declaration order (Drop = 1); the last one is the sentinel.
OpcodeNames ==
  <<"Drop", "Dup", "Swap2", "Select",
    "Call", "Return", "Halt",
    "GetLocal", "SetLocal", "TeeLocal",
    "GetSlotIndirect", "GetSlot", "SetSlot", "ResetSlots",
    "NativeInvoke",
    "CurrentMemory", "GrowMemory",
    "Nop", "Unreachable", "NotSupported",
    "Jmp", "JmpIf", "JmpEither", "JmpTable",
    "I32Load", "I32Load8U", "I32Load8S", "I32Load16U", "I32Load16S",
    "I32Store", "I32Store8", "I32Store16",
    "I32Const", "I32Ctz", "I32Clz", "I32Popcnt",
    "I32Add", "I32Sub", "I32Mul", "I32DivU", "I32DivS", "I32RemU", "I32RemS",
    "I32And", "I32Or", "I32Xor", "I32Shl", "I32ShrU", "I32ShrS", "I32Rotl", "I32Rotr",
    "I32Eq", "I32Ne", "I32LtU", "I32LtS", "I32LeU", "I32LeS", "I32GtU", "I32GtS",
    "I32GeU", "I32GeS",
    "I32WrapI64",
    "I64Load", "I64Load8U", "I64Load8S", "I64Load16U", "I64Load16S", "I64Load32U",
    "I64Load32S",
    "I64Store", "I64Store8", "I64Store16", "I64Store32",
    "I64Const", "I64Ctz", "I64Clz", "I64Popcnt",
    "I64Add", "I64Sub", "I64Mul", "I64DivU", "I64DivS", "I64RemU", "I64RemS",
    "I64And", "I64Or", "I64Xor", "I64Shl", "I64ShrU", "I64ShrS", "I64Rotl", "I64Rotr",
    "I64Eq", "I64Ne", "I64LtU", "I64LtS", "I64LeU", "I64LeS", "I64GtU", "I64GtS",
    "I64GeU", "I64GeS",
    "I64ExtendI32U", "I64ExtendI32S",
    "Never">>

\* `Opcode::X as u8`
OpByte(name) == CHOOSE i \in 1..Len(OpcodeNames) : OpcodeNames[i] = name

\* A from_raw that takes the sentinel for an opcode.
OpcodeFromRawTakesNever(v) ==
  IF v > 0 /\ v <= OpByte("Never")
  THEN [err |-> "", op |-> OpcodeNames[v]]
  ELSE [err |-> "IllegalOpcode", op |-> ""]

\* Opcode::from_raw
OpcodeFromRaw(v) ==
  IF v > 0 /\ v < OpByte("Never")
  THEN [err |-> "", op |-> OpcodeNames[v]]
  ELSE [err |-> "IllegalOpcode", op |-> ""]

\* The elements s[a+1..b] of a sequence.
Slice(s, a, b) == SubSeq(s, a + 1, b)

\* A from_raw that wants at least one byte of code after the initializers.
ModuleFromRawWantsCode(s) ==
  IF Len(s) < 4 THEN [err |-> "Bounds", memory_initializers |-> <<>>, code |-> <<>>]
  ELSE LET initializers_len == WordNat(Slice(s, 0, 4))
           rest == Slice(s, 4, Len(s))
       IN  IF Len(rest) <= initializers_len
           THEN [err |-> "Bounds", memory_initializers |-> <<>>, code |-> <<>>]
           ELSE [err |-> "",
                 memory_initializers |-> Slice(rest, 0, initializers_len),
                 code |-> Slice(rest, initializers_len, Len(rest))]

\* Module::from_raw
ModuleFromRaw(s) ==
  IF Len(s) < 4 THEN [err |-> "Bounds", memory_initializers |-> <<>>, code |-> <<>>]
  ELSE LET initializers_len == WordNat(Slice(s, 0, 4))
           rest == Slice(s, 4, Len(s))
       IN  IF Len(rest) < initializers_len
           THEN [err |-> "Bounds", memory_initializers |-> <<>>, code |-> <<>>]
           ELSE [err |-> "",
                 memory_initializers |-> Slice(rest, 0, initializers_len),
                 code |-> Slice(rest, initializers_len, Len(rest))]

(***************************************************************************)
(* tape.rs: a cursor over a fixed buffer.  A tape is [data, pos]; an       *)
(* operation yields [err, t, at]: whether it failed with Bounds, the tape  *)
(* afterwards, and the index in data (from 1) of the element, or of the    *)
(* first element of the slice, it returns a reference to.                  *)
(***************************************************************************)

\* Tape::from
TapeFrom(data) == [data |-> data, pos |-> 0]

\* Tape::remaining
Remaining(t) == Len(t.data) - t.pos

\* Tape::next
TapeNext(t) ==
  IF Remaining(t) < 1 THEN [err |-> TRUE, t |-> t, at |-> 0]
  ELSE [err |-> FALSE, t |-> [t EXCEPT !.pos = t.pos + 1], at |-> t.pos + 1]

\* Tape::next_many
TapeNextMany(t, n) ==
  IF Remaining(t) < n THEN [err |-> TRUE, t |-> t, at |-> 0]
  ELSE [err |-> FALSE, t |-> [t EXCEPT !.pos = t.pos + n], at |-> t.pos + 1]

\* Tape::prev
TapePrev(t) ==
  IF t.pos = 0 THEN [err |-> TRUE, t |-> t, at |-> 0]
  ELSE [err |-> FALSE, t |-> [t EXCEPT !.pos = t.pos - 1], at |-> t.pos]

\* Tape::tail_many
TapeTailMany(t, n) ==
  IF n > t.pos THEN [err |-> TRUE, t |-> t, at |-> 0]
  ELSE [err |-> FALSE, t |-> t, at |-> t.pos - n + 1]

\* Tape::set_pos without its check of the end of the buffer.
TapeSetPosUnchecked(t, pos) == [err |-> FALSE, t |-> [t EXCEPT !.pos = pos], at |-> 0]

\* Tape::set_pos
TapeSetPos(t, pos) ==
  IF pos <= Len(t.data) THEN [err |-> FALSE, t |-> [t EXCEPT !.pos = pos], at |-> 0]
  ELSE [err |-> TRUE, t |-> t, at |-> 0]

\* Tape::prev_many
TapePrevMany(t, n) ==
  LET v == TapeTailMany(t, n)
  IN  IF v.err THEN v
      ELSE [err |-> FALSE, t |-> TapeSetPos(t, t.pos - n).t, at |-> v.at]

\* Tape::at
TapeAt(t, at) ==
  IF at < Len(t.data) THEN [err |-> FALSE, t |-> t, at |-> at + 1]
  ELSE [err |-> TRUE, t |-> t, at |-> 0]

\* A next_u32 / next_u64 that consumes what is left of a tape that is too short.
TapeNextWordConsumesRest(t, n) ==
  IF Remaining(t) < n THEN [err |-> TRUE, t |-> [t EXCEPT !.pos = Len(t.data)], at |-> 0]
  ELSE [err |-> FALSE, t |-> [t EXCEPT !.pos = t.pos + n], at |-> t.pos + 1]

\* TapeU8::next_u32 / next_u64: n bytes read as one little-endian number.
TapeNextWord(t, n) ==
  IF Remaining(t) < n THEN [err |-> TRUE, t |-> t, at |-> 0]
  ELSE [err |-> FALSE, t |-> [t EXCEPT !.pos = t.pos + n], at |-> t.pos + 1]

(***************************************************************************)
(* vm.rs: bounds-checked memory.  A memory is [len, bytes]: its length and *)
(* the bytes at the addresses that hold a byte other than the zero the     *)
(* buffer was allocated with, or that were written.                        *)
(***************************************************************************)

\* bounds_check that lets an access end one byte after the memory.
BoundsCheckOffByOne(len, start, n) == ~(start >= len \/ start + n > len + 1)

\* bounds_check
BoundsCheck(len, start, n) == ~(start >= len \/ start + n > len)

\* self[ra]
ReadByte(m, ra) == IF ra \in DOMAIN m.bytes THEN m.bytes[ra] ELSE 0

\* Memory::read_u8 .. read_u64: [err, val], val the w bytes at ra.
MemRead(m, ra, w) ==
  IF ~BoundsCheck(m.len, ra, w) THEN [err |-> TRUE, val |-> ZeroBytes(w)]
  ELSE [err |-> FALSE, val |-> Tup([i \in 1..w |-> ReadByte(m, ra + i - 1)])]

\* The bytes of data copied to addresses ra.. of m.
CopyInto(m, ra, data) ==
  [m EXCEPT !.bytes =
     [a \in (DOMAIN m.bytes) \cup (ra..(ra + Len(data) - 1)) |->
        IF a >= ra /\ a < ra + Len(data) THEN data[a - ra + 1] ELSE m.bytes[a]]]

\* Memory::write_u8 .. write_u64: [err, m].
MemWrite(m, ra, val) ==
  IF ~BoundsCheck(m.len, ra, Len(val)) THEN [err |-> TRUE, m |-> m]
  ELSE [err |-> FALSE, m |-> CopyInto(m, ra, val)]

(***************************************************************************)
(* The environment (environment.rs).  The operand stack and the call stack *)
(* are tapes of 64-bit cells, the memory and the slots are buffers the     *)
(* host owns.  The hooks a host may implement with an error are modelled   *)
(* by a host that limits the slots and the memory it hands out, counts     *)
(* opcodes against a budget (fuel; -1: no budget) and offers two native    *)
(* functions.  A VM state s is the record of the module's code tape, the   *)
(* environment's resources, the fuse and the result of run so far          *)
(* (res: "Running", "Ok", an error kind, or "Panic" when the thread        *)
(* panics).                                                                *)
(***************************************************************************)

\* The most slots reset_slots hands out, and the most bytes grow_memory adds at once.
SlotLimit == 4
GrowLimit == 4

Zero64 == ZeroBytes(8)

Running(s) == s.res = "Running"

\* `return Err(e)`, and what the ? operator does with an Err.
Fail(s, e) == IF Running(s) THEN [s EXCEPT !.res = e] ELSE s

\* Environment::reset_slots (he_eval.rs: `*self.slots = vec![0; len]`), by a host
\* that refuses more than SlotLimit slots.
EnvResetSlots(s, n) ==
  IF ~Running(s) THEN s
  ELSE LET c == [s EXCEPT !.resetCalls = s.resetCalls + 1]
       IN  IF n > SlotLimit THEN Fail(c, "SlotLimit")
           ELSE [c EXCEPT !.slots = [i \in 1..n |-> Zero64]]

\* Environment::grow_memory (he_eval.rs: extend by len_inc zero bytes), by a host
\* that refuses to add more than GrowLimit bytes.
EnvGrowMemory(s, len_inc) ==
  IF ~Running(s) THEN s
  ELSE IF len_inc > GrowLimit THEN Fail(s, "MemoryLimit")
  ELSE [s EXCEPT !.mem.len = s.mem.len + len_inc]

\* A do_native_invoke whose function 1 returns a value that depends on the moment
\* of the call.
NativeInvokeOfTheMoment(id) ==
  IF id = 0 THEN [err |-> "", some |-> FALSE, v |-> Zero64]
  ELSE IF id = 1
  THEN [err |-> "", some |-> TRUE, v |-> NatWord(IF twin.lead > 0 THEN 43 ELSE 42, 8)]
  ELSE [err |-> "InvalidNativeInvoke", some |-> FALSE, v |-> Zero64]

\* Environment::do_native_invoke: function 0 returns no value, function 1 returns
\* the value 42, every other id is the trait's default, InvalidNativeInvoke.
EnvNativeInvoke(id) ==
  IF id = 0 THEN [err |-> "", some |-> FALSE, v |-> Zero64]
  ELSE IF id = 1 THEN [err |-> "", some |-> TRUE, v |-> NatWord(42, 8)]
  ELSE [err |-> "InvalidNativeInvoke", some |-> FALSE, v |-> Zero64]

\* A trace_opcode that counts and never returns an error.
EnvTraceOpcodeNeverRefuses(s, op) ==
  IF ~Running(s) \/ s.fuel <= 0 THEN s ELSE [s EXCEPT !.fuel = s.fuel - 1]

\* Environment::trace_opcode: the trait's default (fuel = -1) returns Ok; a host
\* with a step budget returns ExecutionLimit once the budget is used up.
EnvTraceOpcode(s, op) ==
  IF ~Running(s) THEN s
  ELSE IF s.fuel = -1 THEN s
  ELSE IF s.fuel = 0 THEN Fail(s, "ExecutionLimit")
  ELSE [s EXCEPT !.fuel = s.fuel - 1]

(***************************************************************************)
(* vm.rs: the macros                                                       *)
(***************************************************************************)

\* pop1!: [s, v]
Pop1(s) ==
  IF ~Running(s) THEN [s |-> s, v |-> Zero64]
  ELSE LET r == TapePrev(s.stack)
       IN  IF r.err THEN [s |-> Fail(s, "Bounds"), v |-> Zero64]
           ELSE [s |-> [s EXCEPT !.stack = r.t], v |-> s.stack.data[r.at]]

\* pop2!: [s, a, b], b the topmost cell
Pop2(s) ==
  LET b == Pop1(s)
      a == Pop1(b.s)
  IN  [s |-> a.s, a |-> a.v, b |-> b.v]

\* pop3!: [s, a, b, c], c the topmost cell
Pop3(s) ==
  LET c == Pop1(s)
      b == Pop1(c.s)
      a == Pop1(b.s)
  IN  [s |-> a.s, a |-> a.v, b |-> b.v, c |-> c.v]

\* push1!
Push1(s, v) ==
  IF ~Running(s) THEN s
  ELSE LET r == TapeNext(s.stack)
       IN  IF r.err THEN Fail(s, "Bounds")
           ELSE [s EXCEPT !.stack = [data |-> [s.stack.data EXCEPT ![r.at] = v],
                                     pos |-> r.t.pos]]

\* cs.next()?.set(v)
PushCall(s, v) ==
  IF ~Running(s) THEN s
  ELSE LET r == TapeNext(s.cs)
       IN  IF r.err THEN Fail(s, "Bounds")
           ELSE [s EXCEPT !.cs = [data |-> [s.cs.data EXCEPT ![r.at] = v],
                                  pos |-> r.t.pos]]

\* code.next_u32()? : [s, v], v the 4 immediate bytes
NextU32(s) ==
  IF ~Running(s) THEN [s |-> s, v |-> ZeroBytes(4)]
  ELSE LET r == TapeNextWord(s.code, 4)
       IN  IF r.err THEN [s |-> Fail(s, "Bounds"), v |-> ZeroBytes(4)]
           ELSE [s |-> [s EXCEPT !.code = r.t],
                 v |-> Slice(s.code.data, r.at - 1, r.at + 3)]

\* code.next_u64()? : [s, v]
NextU64(s) ==
  IF ~Running(s) THEN [s |-> s, v |-> Zero64]
  ELSE LET r == TapeNextWord(s.code, 8)
       IN  IF r.err THEN [s |-> Fail(s, "Bounds"), v |-> Zero64]
           ELSE [s |-> [s EXCEPT !.code = r.t],
                 v |-> Slice(s.code.data, r.at - 1, r.at + 7)]

\* code.set_pos(target)?
SetPos(s, target) ==
  IF ~Running(s) THEN s
  ELSE LET r == TapeSetPos(s.code, target)
       IN  IF r.err THEN Fail(s, "Bounds") ELSE [s EXCEPT !.code = r.t]

\* extract_locals!: [s, at, n]: the locals of the top frame are the n cells of the
\* call stack from index at.  n_all_locals + 2 overflows a usize for the cells -1
\* and -2: a debug build panics at the addition, a release build at the slice
\* [0..n_all_locals] of the shorter slice that the wrapped sum yields.
ExtractLocals(s) ==
  IF ~Running(s) THEN [s |-> s, at |-> 0, n |-> 0]
  ELSE LET h == TapeTailMany(s.cs, 2)
       IN  IF h.err THEN [s |-> Fail(s, "Bounds"), at |-> 0, n |-> 0]
           ELSE LET cell == s.cs.data[h.at]
                    n_all_locals == WordNat(cell)
                    wraps == (\A i \in 2..8 : cell[i] = 255) /\ cell[1] >= 254
                    r == TapeTailMany(s.cs, AddNat(n_all_locals, 2))
                IN  IF wraps THEN [s |-> Fail(s, "Panic"), at |-> 0, n |-> 0]
                    ELSE IF r.err THEN [s |-> Fail(s, "Bounds"), at |-> 0, n |-> 0]
                    ELSE [s |-> s, at |-> r.at, n |-> n_all_locals]

\* A get_local that counts the locals from the top of the frame.
GetLocalMCountsFromTop(s, id) ==
  LET l == ExtractLocals(s)
  IN  IF ~Running(l.s) THEN l.s
      ELSE IF id >= l.n THEN Fail(l.s, "Bounds")
      ELSE Push1(l.s, s.cs.data[l.at + l.n - 1 - id])

\* get_local!
GetLocalM(s, id) ==
  LET l == ExtractLocals(s)
  IN  IF ~Running(l.s) THEN l.s
      ELSE IF id >= l.n THEN Fail(l.s, "Bounds")
      ELSE Push1(l.s, s.cs.data[l.at + id])

\* A set_local that pops the operand before it looks at the id.
SetLocalMPopsFirst(s, id) ==
  LET p == Pop1(s)
      l == ExtractLocals(p.s)
  IN  IF ~Running(l.s) THEN l.s
      ELSE IF id >= l.n THEN Fail(l.s, "Bounds")
      ELSE [l.s EXCEPT !.cs.data[l.at + id] = p.v]

\* set_local!
SetLocalM(s, id) ==
  LET l == ExtractLocals(s)
  IN  IF ~Running(l.s) THEN l.s
      ELSE IF id >= l.n THEN Fail(l.s, "Bounds")
      ELSE LET p == Pop1(l.s)
           IN  IF ~Running(p.s) THEN p.s
               ELSE [p.s EXCEPT !.cs.data[l.at + id] = p.v]

\* A tee_local that counts the locals from the bottom of the call stack.
TeeLocalMFromTheBottom(s, id) ==
  LET l == ExtractLocals(s)
  IN  IF ~Running(l.s) THEN l.s
      ELSE IF id >= l.n THEN Fail(l.s, "Bounds")
      ELSE LET t == TapeTailMany(l.s.stack, 1)
           IN  IF t.err THEN Fail(l.s, "Bounds")
               ELSE [l.s EXCEPT !.cs.data[1 + id] = l.s.stack.data[t.at]]

\* tee_local!
TeeLocalM(s, id) ==
  LET l == ExtractLocals(s)
  IN  IF ~Running(l.s) THEN l.s
      ELSE IF id >= l.n THEN Fail(l.s, "Bounds")
      ELSE LET t == TapeTailMany(l.s.stack, 1)
           IN  IF t.err THEN Fail(l.s, "Bounds")
               ELSE [l.s EXCEPT !.cs.data[l.at + id] = l.s.stack.data[t.at]]

\* A load_val! whose sum of offset and address wraps at 32 bits.
LoadValWrapsAt32Bits(s, w, signed) ==
  LET offset == NextU32(s)
      addr == Pop1(offset.s)
      real_addr == WordNat(AddBytes(offset.v, Trunc(addr.v, 4)))
      r == MemRead(addr.s.mem, real_addr, w)
  IN  IF ~Running(addr.s) THEN addr.s
      ELSE IF r.err THEN Fail(addr.s, "Bounds")
      ELSE Push1(addr.s, IF signed THEN SignExt(r.val, 8) ELSE ZeroExt(r.val, 8))

\* load_val!: read w bytes at offset + addr, widen them (sign extension when
\* signed) and push the cell.
LoadVal(s, w, signed) ==
  LET offset == NextU32(s)
      addr == Pop1(offset.s)
      real_addr == AddNat(WordNat(offset.v), WordNat(Trunc(addr.v, 4)))
      r == MemRead(addr.s.mem, real_addr, w)
  IN  IF ~Running(addr.s) THEN addr.s
      ELSE IF r.err THEN Fail(addr.s, "Bounds")
      ELSE Push1(addr.s, IF signed THEN SignExt(r.val, 8) ELSE ZeroExt(r.val, 8))

\* store_val! with the two pops exchanged: the address on top, the value below.
StoreValAddrOnTop(s, w) ==
  LET offset == NextU32(s)
      addr == Pop1(offset.s)
      val == Pop1(addr.s)
      real_addr == AddNat(WordNat(offset.v), WordNat(Trunc(addr.v, 4)))
      r == MemWrite(val.s.mem, real_addr, Trunc(val.v, w))
  IN  IF ~Running(val.s) THEN val.s
      ELSE IF r.err THEN Fail(val.s, "Bounds")
      ELSE [val.s EXCEPT !.mem = r.m]

\* store_val!: pop the value, then the address, write the low w bytes of the value.
StoreVal(s, w) ==
  LET offset == NextU32(s)
      val == Pop1(offset.s)
      addr == Pop1(val.s)
      real_addr == AddNat(WordNat(offset.v), WordNat(Trunc(addr.v, 4)))
      r == MemWrite(addr.s.mem, real_addr, Trunc(val.v, w))
  IN  IF ~Running(addr.s) THEN addr.s
      ELSE IF r.err THEN Fail(addr.s, "Bounds")
      ELSE [addr.s EXCEPT !.mem = r.m]

(***************************************************************************)
(* vm.rs: the arithmetic of run_unop!, run_binop! and run_relop!.  An      *)
(* operand is the cell cast to the operation's type t (its low 4 or all 8  *)
(* bytes); the result is cast back to a cell with `as u64 as i64`, which   *)
(* sign-extends an i32 and zero-extends a u32.                             *)
(***************************************************************************)

I32Ops ==
  {"I32Ctz", "I32Clz", "I32Popcnt", "I32Add", "I32Sub", "I32Mul", "I32DivU", "I32DivS",
   "I32RemU", "I32RemS", "I32And", "I32Or", "I32Xor", "I32Shl", "I32ShrU", "I32ShrS",
   "I32Rotl", "I32Rotr", "I32Eq", "I32Ne", "I32LtU", "I32LtS", "I32LeU", "I32LeS",
   "I32GtU", "I32GtS", "I32GeU", "I32GeS", "I32WrapI64"}

\* The operations whose type t is signed (i32 or i64).
SignedTypeOps ==
  {"I32Ctz", "I32Clz", "I32Popcnt", "I32Add", "I32Sub", "I32Mul", "I32DivS", "I32RemS",
   "I32ShrS", "I32LtS", "I32LeS", "I32GtS", "I32GeS",
   "I64Ctz", "I64Clz", "I64Popcnt", "I64Add", "I64Sub", "I64Mul", "I64DivS", "I64RemS",
   "I64ShrS", "I64LtS", "I64LeS", "I64GtS", "I64GeS"}

UnOps ==
  {"I32Ctz", "I32Clz", "I32Popcnt", "I32WrapI64",
   "I64Ctz", "I64Clz", "I64Popcnt", "I64ExtendI32U", "I64ExtendI32S"}

DivRemOps ==
  {"I32DivU", "I32DivS", "I32RemU", "I32RemS", "I64DivU", "I64DivS", "I64RemU", "I64RemS"}

BinOps ==
  {"I32Add", "I32Sub", "I32Mul", "I32And", "I32Or", "I32Xor", "I32Shl", "I32ShrU",
   "I32ShrS", "I32Rotl", "I32Rotr",
   "I64Add", "I64Sub", "I64Mul", "I64And", "I64Or", "I64Xor", "I64Shl", "I64ShrU",
   "I64ShrS", "I64Rotl", "I64Rotr"} \cup DivRemOps

RelOps ==
  {"I32Eq", "I32Ne", "I32LtU", "I32LtS", "I32LeU", "I32LeS", "I32GtU", "I32GtS",
   "I32GeU", "I32GeS",
   "I64Eq", "I64Ne", "I64LtU", "I64LtS", "I64LeU", "I64LeS", "I64GtU", "I64GtS",
   "I64GeU", "I64GeS"}

\* The width in bytes of the type t of an arithmetic operation.
OpWidth(op) == IF op \in I32Ops THEN 4 ELSE 8

\* `result as u64 as i64` for a result of the operation's type.
ToCell(op, w) == IF op \in SignedTypeOps THEN SignExt(w, 8) ELSE ZeroExt(w, 8)

\* The closures of the run_unop! calls, on the operand's bits.
UnOpBits(op, a) ==
  CASE op \in {"I32Clz", "I64Clz"} -> ToBits(NatWord(ClzFrom(a, Len(a)), Len(a) \div 8))
    [] op \in {"I32Ctz", "I64Ctz"} -> ToBits(NatWord(CtzFrom(a, 1), Len(a) \div 8))
    [] op \in {"I32Popcnt", "I64Popcnt"} -> ToBits(NatWord(PopFrom(a, 1), Len(a) \div 8))
    [] op = "I32WrapI64" -> a
    [] op = "I64ExtendI32U" -> ToBits(ZeroExt(Trunc(FromBits(a), 4), 8))
    [] op = "I64ExtendI32S" -> ToBits(SignExt(Trunc(FromBits(a), 4), 8))

\* The shift amount of wrapping_shl / wrapping_shr / rotate_*: b modulo the width
\* in bits of a.
ShiftAmount(a, b) == b[1] % (8 * Len(a))

\* The closures of the run_binop! calls, on the operands' bytes; the divisor of a
\* division or remainder is not zero here.
BinOpBytes(op, a, b) ==
  CASE op \in {"I32Add", "I64Add"} -> AddBytes(a, b)
    [] op \in {"I32Sub", "I64Sub"} -> SubBytes(a, b)
    [] op \in {"I32Mul", "I64Mul"} -> MulBytes(a, b)
    [] op \in {"I32DivU", "I64DivU"} -> DivUBytes(a, b)
    [] op \in {"I32DivS", "I64DivS"} -> DivSBytes(a, b)
    [] op \in {"I32RemU", "I64RemU"} -> RemUBytes(a, b)
    [] op \in {"I32RemS", "I64RemS"} -> RemSBytes(a, b)
    [] op \in {"I32And", "I64And"} -> FromBits(BitWise(ToBits(a), ToBits(b), 0, 0, 1))
    [] op \in {"I32Or", "I64Or"} -> FromBits(BitWise(ToBits(a), ToBits(b), 0, 1, 1))
    [] op \in {"I32Xor", "I64Xor"} -> FromBits(BitWise(ToBits(a), ToBits(b), 0, 1, 0))
    [] op \in {"I32Shl", "I64Shl"} -> FromBits(ShlBits(ToBits(a), ShiftAmount(a, b)))
    [] op \in {"I32ShrU", "I64ShrU"} -> FromBits(ShrBits(ToBits(a), ShiftAmount(a, b), 0))
    [] op \in {"I32ShrS", "I64ShrS"} ->
         FromBits(ShrBits(ToBits(a), ShiftAmount(a, b), SignBit(a)))
    [] op \in {"I32Rotl", "I64Rotl"} -> FromBits(RotlBits(ToBits(a), ShiftAmount(a, b)))
    [] op \in {"I32Rotr", "I64Rotr"} ->
         FromBits(RotlBits(ToBits(a), (8 * Len(a) - ShiftAmount(a, b)) % (8 * Len(a))))

\* The closures of the run_relop! calls, on the operands' bytes.
RelOpBytes(op, a, b) ==
  CASE op \in {"I32Eq", "I64Eq"} -> a = b
    [] op \in {"I32Ne", "I64Ne"} -> a # b
    [] op \in {"I32LtU", "I64LtU"} -> LtBytes(a, b)
    [] op \in {"I32LtS", "I64LtS"} -> LtSBytes(a, b)
    [] op \in {"I32LeU", "I64LeU"} -> ~LtBytes(b, a)
    [] op \in {"I32LeS", "I64LeS"} -> ~LtSBytes(b, a)
    [] op \in {"I32GtU", "I64GtU"} -> LtBytes(b, a)
    [] op \in {"I32GtS", "I64GtS"} -> LtSBytes(b, a)
    [] op \in {"I32GeU", "I64GeU"} -> ~LtBytes(a, b)
    [] op \in {"I32GeS", "I64GeS"} -> ~LtSBytes(a, b)

\* run_unop!
RunUnop(s, op) ==
  LET p == Pop1(s)
  IN  Push1(p.s, ToCell(op, FromBits(UnOpBits(op, ToBits(Trunc(p.v, OpWidth(op)))))))

\* What wrapping_div / wrapping_rem do with a zero divisor: the thread panics
\* ("attempt to divide by zero").
DivideByZeroOutcome == "Panic"

\* A run_binop! that casts the result to a cell without its sign.
RunBinopZeroExtends(s, op) ==
  LET p == Pop2(s)
      left == Trunc(p.a, OpWidth(op))
      right == Trunc(p.b, OpWidth(op))
  IN  IF ~Running(p.s) THEN p.s
      ELSE IF op \in DivRemOps /\ IsZero(right) THEN Fail(p.s, DivideByZeroOutcome)
      ELSE Push1(p.s, ZeroExt(BinOpBytes(op, left, right), 8))

\* run_binop!
RunBinop(s, op) ==
  LET p == Pop2(s)
      left == Trunc(p.a, OpWidth(op))
      right == Trunc(p.b, OpWidth(op))
  IN  IF ~Running(p.s) THEN p.s
      ELSE IF op \in DivRemOps /\ IsZero(right) THEN Fail(p.s, DivideByZeroOutcome)
      ELSE Push1(p.s, ToCell(op, BinOpBytes(op, left, right)))

\* run_relop!
RunRelop(s, op) ==
  LET p == Pop2(s)
      left == Trunc(p.a, OpWidth(op))
      right == Trunc(p.b, OpWidth(op))
  IN  IF ~Running(p.s) THEN p.s
      ELSE Push1(p.s, NatWord(IF RelOpBytes(op, left, right) THEN 1 ELSE 0, 8))

(***************************************************************************)
(* vm.rs: the arms of the match in run                                     *)
(***************************************************************************)

\* cs.prev()?.get(): [s, v]
PopCall(s) ==
  IF ~Running(s) THEN [s |-> s, v |-> Zero64]
  ELSE LET r == TapePrev(s.cs)
       IN  IF r.err THEN [s |-> Fail(s, "Bounds"), v |-> Zero64]
           ELSE [s |-> [s EXCEPT !.cs = r.t], v |-> s.cs.data[r.at]]

\* `for arg in ... { cs.next()?.set(arg.get()) }`
RECURSIVE PushCallMany(_, _)
PushCallMany(s, vals) ==
  IF vals = <<>> THEN s ELSE PushCallMany(PushCall(s, Head(vals)), Tail(vals))

\* `for _ in 0..n_locals { cs.next()?.set(0) }`: the cells that fit are zeroed
\* before the first cs.next() that fails.
PushCallZeros(s, n) ==
  IF ~Running(s) THEN s
  ELSE LET room == Remaining(s.cs)
           k == IF n > room THEN room ELSE n
           filled ==
             [s EXCEPT !.cs =
                [data |-> Tup([i \in 1..Len(s.cs.data) |->
                                 IF i > s.cs.pos /\ i <= s.cs.pos + k THEN Zero64
                                 ELSE s.cs.data[i]]),
                 pos |-> s.cs.pos + k]]
       IN  IF n > room THEN Fail(filled, "Bounds") ELSE filled

\* Opcode::Drop
ExecDrop(s) == Pop1(s).s

\* Opcode::Dup
ExecDup(s) ==
  LET t == TapeTailMany(s.stack, 1)
  IN  IF t.err THEN Fail(s, "Bounds") ELSE Push1(s, s.stack.data[t.at])

\* A Swap2 that copies the top cell to the one below it and keeps the top.
ExecSwap2CopiesTop(s) ==
  LET t == TapeTailMany(s.stack, 2)
  IN  IF t.err THEN Fail(s, "Bounds")
      ELSE [s EXCEPT !.stack.data[t.at] = s.stack.data[t.at + 1]]

\* Opcode::Swap2
ExecSwap2(s) ==
  LET t == TapeTailMany(s.stack, 2)
  IN  IF t.err THEN Fail(s, "Bounds")
      ELSE [s EXCEPT !.stack.data[t.at] = s.stack.data[t.at + 1],
                     !.stack.data[t.at + 1] = s.stack.data[t.at]]

\* Opcode::Select: `let (cond, val1, val2) = pop3!(self.env)`
ExecSelect(s) ==
  LET p == Pop3(s)
      cond == p.a
      val1 == p.b
      val2 == p.c
  IN  IF ~IsZero(cond) THEN Push1(p.s, val1) ELSE Push1(p.s, val2)

\* A Call that writes return_ip below the cell n_all_locals.
ExecCallLinksFirst(s) ==
  LET n_args == NextU32(s)
      n_locals == Pop1(n_args.s)
      target == Pop1(n_locals.s)
      args == TapePrevMany(target.s.stack, WordNat(n_args.v))
  IN  IF ~Running(target.s) THEN target.s
      ELSE IF args.err THEN Fail(target.s, "Bounds")
      ELSE LET taken == [target.s EXCEPT !.stack = args.t]
               moved == PushCallMany(taken,
                          Slice(taken.stack.data, args.at - 1,
                                args.at - 1 + WordNat(n_args.v)))
               zeroed == PushCallZeros(moved, WordNat(n_locals.v))
               linked == PushCall(zeroed, NatWord(zeroed.code.pos, 8))
               counted == PushCall(linked,
                            NatWord(WordNat(n_args.v) + WordNat(n_locals.v), 8))
           IN  SetPos(counted, WordNat(target.v))

\* Opcode::Call
ExecCall(s) ==
  LET n_args == NextU32(s)
      n_locals == Pop1(n_args.s)
      target == Pop1(n_locals.s)
      args == TapePrevMany(target.s.stack, WordNat(n_args.v))
  IN  IF ~Running(target.s) THEN target.s
      ELSE IF args.err THEN Fail(target.s, "Bounds")
      ELSE LET taken == [target.s EXCEPT !.stack = args.t]
               moved == PushCallMany(taken,
                          Slice(taken.stack.data, args.at - 1,
                                args.at - 1 + WordNat(n_args.v)))
               zeroed == PushCallZeros(moved, WordNat(n_locals.v))
               counted == PushCall(zeroed,
                            NatWord(WordNat(n_args.v) + WordNat(n_locals.v), 8))
               linked == PushCall(counted, NatWord(counted.code.pos, 8))
           IN  SetPos(linked, WordNat(target.v))

\* Return without `cs.prev_many(n_all_locals)`: the locals stay on the call stack.
ExecReturnKeepsLocals(s) ==
  LET return_ip == PopCall(s)
      n_all_locals == PopCall(return_ip.s)
  IN  IF ~Running(n_all_locals.s) THEN n_all_locals.s
      ELSE SetPos(n_all_locals.s, WordNat(return_ip.v))

\* Opcode::Return
ExecReturn(s) ==
  LET return_ip == PopCall(s)
      n_all_locals == PopCall(return_ip.s)
      r == TapePrevMany(n_all_locals.s.cs, WordNat(n_all_locals.v))
  IN  IF ~Running(n_all_locals.s) THEN n_all_locals.s
      ELSE IF r.err THEN Fail(n_all_locals.s, "Bounds")
      ELSE SetPos([n_all_locals.s EXCEPT !.cs = r.t], WordNat(return_ip.v))

\* Opcode::Halt
ExecHalt(s) == [s EXCEPT !.res = "Ok"]

\* Opcode::GetLocal / SetLocal / TeeLocal
ExecGetLocal(s) == LET id == NextU32(s) IN GetLocalM(id.s, WordNat(id.v))
ExecSetLocal(s) == LET id == NextU32(s) IN SetLocalM(id.s, WordNat(id.v))
ExecTeeLocal(s) == LET id == NextU32(s) IN TeeLocalM(id.s, WordNat(id.v))

\* `bounds_check(slots, id, 1)?; let val = slots[id]; push1!(self.env, val)`
PushSlot(s, id) ==
  IF ~Running(s) THEN s
  ELSE IF ~BoundsCheck(Len(s.slots), id, 1) THEN Fail(s, "Bounds")
  ELSE Push1(s, s.slots[id + 1])

\* A GetSlotIndirect that takes the low 32 bits of the popped cell as the index.
ExecGetSlotIndirectTruncatesIndex(s) ==
  LET id == Pop1(s) IN PushSlot(id.s, WordNat(Trunc(id.v, 4)))

\* Opcode::GetSlotIndirect
ExecGetSlotIndirect(s) == LET id == Pop1(s) IN PushSlot(id.s, WordNat(id.v))

\* Opcode::GetSlot
ExecGetSlot(s) == LET id == NextU32(s) IN PushSlot(id.s, WordNat(id.v))

\* Opcode::SetSlot
ExecSetSlot(s) ==
  LET id == NextU32(s)
      val == Pop1(id.s)
  IN  IF ~Running(val.s) THEN val.s
      ELSE IF ~BoundsCheck(Len(val.s.slots), WordNat(id.v), 1) THEN Fail(val.s, "Bounds")
      ELSE [val.s EXCEPT !.slots[WordNat(id.v) + 1] = val.v]

\* The check of the fuse without `self.reset_slots_fuse = true`.
BlowFuseForgets(s) ==
  IF ~Running(s) THEN s
  ELSE IF s.fuse THEN Fail(s, "Fuse")
  ELSE s

\* `if self.reset_slots_fuse { return Err(Fuse) }  self.reset_slots_fuse = true;`
BlowFuse(s) ==
  IF ~Running(s) THEN s
  ELSE IF s.fuse THEN Fail(s, "Fuse")
  ELSE [s EXCEPT !.fuse = TRUE]

\* Opcode::ResetSlots
ExecResetSlots(s) ==
  LET n == NextU32(s)
  IN  EnvResetSlots(BlowFuse(n.s), WordNat(n.v))

\* Opcode::NativeInvoke
ExecNativeInvoke(s) ==
  LET id == NextU32(s)
      ret == EnvNativeInvoke(WordNat(id.v))
  IN  IF ~Running(id.s) THEN id.s
      ELSE IF ret.err # "" THEN Fail(id.s, ret.err)
      ELSE IF ret.some THEN Push1(id.s, ret.v)
      ELSE id.s

\* Opcode::CurrentMemory
ExecCurrentMemory(s) == Push1(s, NatWord(s.mem.len, 8))

\* A GrowMemory that reads the length of the memory after it has grown.
ExecGrowMemoryPushesNewLength(s) ==
  LET len_inc == Pop1(s)
      grown == EnvGrowMemory(len_inc.s, WordNat(len_inc.v))
  IN  Push1(grown, NatWord(grown.mem.len, 8))

\* Opcode::GrowMemory
ExecGrowMemory(s) ==
  LET len_inc == Pop1(s)
      pushed == Push1(len_inc.s, NatWord(len_inc.s.mem.len, 8))
  IN  EnvGrowMemory(pushed, WordNat(len_inc.v))

\* Opcode::Jmp
ExecJmp(s) == LET target == NextU32(s) IN SetPos(target.s, WordNat(target.v))

\* Opcode::JmpIf
ExecJmpIf(s) ==
  LET target == NextU32(s)
      cond == Pop1(target.s)
  IN  IF ~Running(cond.s) THEN cond.s
      ELSE IF ~IsZero(cond.v) THEN SetPos(cond.s, WordNat(target.v))
      ELSE cond.s

\* Opcode::JmpEither
ExecJmpEither(s) ==
  LET target_a == NextU32(s)
      target_b == NextU32(target_a.s)
      cond == Pop1(target_b.s)
  IN  IF ~Running(cond.s) THEN cond.s
      ELSE IF ~IsZero(cond.v) THEN SetPos(cond.s, WordNat(target_a.v))
      ELSE SetPos(cond.s, WordNat(target_b.v))

\* `table_len * 4`, kept as Huge when it reaches Huge.
TimesFour(n) == IF n >= Huge \div 4 THEN Huge ELSE 4 * n

\* A JmpTable that takes the index from the low 32 bits of the cell.
ExecJmpTableTruncatesIndex(s) ==
  LET cond == Pop1(s)
      default_target == NextU32(cond.s)
      table_len == NextU32(default_target.s)
      before == table_len.s
      table == TapeNextMany(before.code, TimesFour(WordNat(table_len.v)))
      i == WordNat(Trunc(cond.v, 4))
  IN  IF ~Running(before) THEN before
      ELSE IF table.err THEN Fail(before, "Bounds")
      ELSE LET after == [before EXCEPT !.code = table.t]
           IN  IF i >= WordNat(table_len.v)
               THEN SetPos(after, WordNat(default_target.v))
               ELSE SetPos(after,
                      WordNat(Slice(before.code.data, table.at - 1 + i * 4,
                                    table.at + 3 + i * 4)))

\* Opcode::JmpTable
ExecJmpTable(s) ==
  LET cond == Pop1(s)
      default_target == NextU32(cond.s)
      table_len == NextU32(default_target.s)
      before == table_len.s
      table == TapeNextMany(before.code, TimesFour(WordNat(table_len.v)))
      i == WordNat(cond.v)
  IN  IF ~Running(before) THEN before
      ELSE IF table.err THEN Fail(before, "Bounds")
      ELSE LET after == [before EXCEPT !.code = table.t]
           IN  IF i >= WordNat(table_len.v)
               THEN SetPos(after, WordNat(default_target.v))
               ELSE SetPos(after,
                      WordNat(Slice(before.code.data, table.at - 1 + i * 4,
                                    table.at + 3 + i * 4)))

\* Opcode::I32Const: `push1!(self.env, v as i64)` for the u32 v
ExecI32Const(s) == LET v == NextU32(s) IN Push1(v.s, ZeroExt(v.v, 8))

\* Opcode::I64Const
ExecI64Const(s) == LET v == NextU64(s) IN Push1(v.s, v.v)

LoadOps ==
  {"I32Load", "I32Load8U", "I32Load8S", "I32Load16U", "I32Load16S",
   "I64Load", "I64Load8U", "I64Load8S", "I64Load16U", "I64Load16S", "I64Load32U",
   "I64Load32S"}

StoreOps ==
  {"I32Store", "I32Store8", "I32Store16", "I64Store", "I64Store8", "I64Store16",
   "I64Store32"}

\* The number of bytes a load or store reads or writes ($read / $write).
AccessWidth(op) ==
  CASE op \in {"I32Load8U", "I32Load8S", "I64Load8U", "I64Load8S", "I32Store8", "I64Store8"} -> 1
    [] op \in {"I32Load16U", "I32Load16S", "I64Load16U", "I64Load16S", "I32Store16",
               "I64Store16"} -> 2
    [] op \in {"I32Load", "I64Load32U", "I64Load32S", "I32Store", "I64Store32"} -> 4
    [] op \in {"I64Load", "I64Store"} -> 8

\* The loads whose $t1 is signed.
SignedLoads == {"I32Load8S", "I32Load16S", "I64Load8S", "I64Load16S", "I64Load32S"}

\* The arm of `match op` for the opcode op.
Dispatch(op, s) ==
  CASE op = "Drop" -> ExecDrop(s)
    [] op = "Dup" -> ExecDup(s)
    [] op = "Swap2" -> ExecSwap2(s)
    [] op = "Select" -> ExecSelect(s)
    [] op = "Call" -> ExecCall(s)
    [] op = "Return" -> ExecReturn(s)
    [] op = "Halt" -> ExecHalt(s)
    [] op = "GetLocal" -> ExecGetLocal(s)
    [] op = "SetLocal" -> ExecSetLocal(s)
    [] op = "TeeLocal" -> ExecTeeLocal(s)
    [] op = "GetSlotIndirect" -> ExecGetSlotIndirect(s)
    [] op = "GetSlot" -> ExecGetSlot(s)
    [] op = "SetSlot" -> ExecSetSlot(s)
    [] op = "ResetSlots" -> ExecResetSlots(s)
    [] op = "NativeInvoke" -> ExecNativeInvoke(s)
    [] op = "CurrentMemory" -> ExecCurrentMemory(s)
    [] op = "GrowMemory" -> ExecGrowMemory(s)
    [] op = "Nop" -> s
    [] op = "Unreachable" -> Fail(s, "Unreachable")
    [] op = "NotSupported" -> Fail(s, "NotSupported")
    [] op = "Jmp" -> ExecJmp(s)
    [] op = "JmpIf" -> ExecJmpIf(s)
    [] op = "JmpEither" -> ExecJmpEither(s)
    [] op = "JmpTable" -> ExecJmpTable(s)
    [] op \in LoadOps -> LoadVal(s, AccessWidth(op), op \in SignedLoads)
    [] op \in StoreOps -> StoreVal(s, AccessWidth(op))
    [] op = "I32Const" -> ExecI32Const(s)
    [] op = "I64Const" -> ExecI64Const(s)
    [] op \in UnOps -> RunUnop(s, op)
    [] op \in BinOps -> RunBinop(s, op)
    [] op \in RelOps -> RunRelop(s, op)
    [] op = "Never" -> Fail(s, "IllegalOpcode")

\* `Opcode::from_raw(*(code.next()?))?`: [s, op], op = "" when the fetch or the
\* decoding failed.
Fetch(s) ==
  LET f == TapeNext(s.code)
  IN  IF f.err THEN [s |-> Fail(s, "Bounds"), op |-> ""]
      ELSE LET d == OpcodeFromRaw(s.code.data[f.at])
               fetched == [s EXCEPT !.code = f.t]
           IN  IF d.err # "" THEN [s |-> Fail(fetched, d.err), op |-> ""]
               ELSE [s |-> fetched, op |-> d.op]

\* An iteration of run that calls trace_opcode after the arm of the opcode.
RunStepTracesLast(s) ==
  LET f == Fetch(s)
  IN  IF ~Running(f.s) THEN f.s ELSE EnvTraceOpcode(Dispatch(f.op, f.s), f.op)

\* One iteration of the loop of run that decodes one of the opcodes ops ("": the
\* code is at its end, or the byte is no opcode).
RunStep(s) ==
  LET f == Fetch(s)
  IN  IF ~Running(f.s) THEN f.s
      ELSE LET traced == EnvTraceOpcode(f.s, f.op)
           IN  IF ~Running(traced) THEN traced ELSE Dispatch(f.op, traced)

RECURSIVE InitLoop(_, _)
\* A loop that takes an empty record at the end of the memory.
InitLoopTakesEmptyAtEnd(s, inits) ==
  LET a == TapeNextWord(inits, 4)
  IN  IF a.err THEN [s EXCEPT !.res = "Ok"]
      ELSE LET addr == WordNat(Slice(inits.data, a.at - 1, a.at + 3))
               l == TapeNextWord(a.t, 4)
           IN  IF l.err THEN Fail(s, "Bounds")
               ELSE LET data_len == WordNat(Slice(inits.data, l.at - 1, l.at + 3))
                        d == TapeNextMany(l.t, data_len)
                    IN  IF d.err THEN Fail(s, "Bounds")
                        ELSE IF addr + data_len > s.mem.len
                        THEN Fail(s, "Bounds")
                        ELSE InitLoop(
                               [s EXCEPT !.mem =
                                  CopyInto(s.mem, addr,
                                           Slice(inits.data, d.at - 1, d.at - 1 + data_len))],
                               d.t)

\* The loop of run_memory_initializers, from the position of the tape inits over
\* module.memory_initializers.
InitLoop(s, inits) ==
  LET a == TapeNextWord(inits, 4)
  IN  IF a.err THEN [s EXCEPT !.res = "Ok"]
      ELSE LET addr == WordNat(Slice(inits.data, a.at - 1, a.at + 3))
               l == TapeNextWord(a.t, 4)
           IN  IF l.err THEN Fail(s, "Bounds")
               ELSE LET data_len == WordNat(Slice(inits.data, l.at - 1, l.at + 3))
                        d == TapeNextMany(l.t, data_len)
                    IN  IF d.err THEN Fail(s, "Bounds")
                        ELSE IF addr >= s.mem.len \/ addr + data_len > s.mem.len
                        THEN Fail(s, "Bounds")
                        ELSE InitLoop(
                               [s EXCEPT !.mem =
                                  CopyInto(s.mem, addr,
                                           Slice(inits.data, d.at - 1, d.at - 1 + data_len))],
                               d.t)

\* VirtualMachine::run_memory_initializers: the memory afterwards and the result.
RunMemoryInitializersOf(s, blob) == InitLoop([s EXCEPT !.res = "Running"], TapeFrom(blob))

(***************************************************************************)
(* Programs and initializer blobs the machine is run on                    *)
(***************************************************************************)

\* An opcode byte, and an instruction with one u32 immediate given as a number.
Op(name) == <<OpByte(name)>>
OpImm(name, n) == <<OpByte(name)>> \o NatWord(n, 4)
\* An instruction with immediate bytes given as they stand.
OpRaw(name, bytes) == <<OpByte(name)>> \o bytes

\* The u32 values 0xFFFFFFFF, 0xFFFFFFFC, 0xDEADBEEF, 0x80000000 and the i64 -1, -2
\* and 2^32, little-endian.
AllOnes32 == <<255, 255, 255, 255>>
TopMinus3 == <<252, 255, 255, 255>>
DeadBeef == <<239, 190, 173, 222>>
SignOnly32 == <<0, 0, 0, 128>>
MinusOne64 == <<255, 255, 255, 255, 255, 255, 255, 255>>
MinusTwo64 == <<254, 255, 255, 255, 255, 255, 255, 255>>
TwoTo32 == <<0, 0, 0, 0, 1, 0, 0, 0>>

\* spec section 8, Scenario A
ScenarioA ==
  OpImm("I32Const", 3) \o OpImm("I32Const", 4) \o Op("I32Add") \o Op("Drop") \o Op("Halt")

\* Scenario B as the spec writes it
ScenarioB ==
  OpRaw("I32Const", DeadBeef) \o OpImm("I32Const", 100) \o OpImm("I32Store", 0)
  \o OpImm("I32Const", 100) \o OpImm("I32Load", 0) \o Op("Halt")

\* Scenario B with the address pushed before the value
ScenarioBAddrFirst ==
  OpImm("I32Const", 100) \o OpRaw("I32Const", DeadBeef) \o OpImm("I32Store", 0)
  \o OpImm("I32Const", 100) \o OpImm("I32Load", 0) \o Op("Halt")

\* Scenario C: the callee starts at byte 21
ScenarioC ==
  OpImm("I32Const", 7) \o OpImm("I32Const", 21) \o OpImm("I32Const", 0)
  \o OpImm("Call", 1) \o Op("Halt")
  \o OpImm("GetLocal", 0) \o OpImm("I32Const", 1) \o Op("I32Add") \o Op("Return")

\* Scenario D
ScenarioD == OpRaw("I32Const", TopMinus3) \o OpImm("I32Load", 8)

\* Scenario E
ScenarioE == OpImm("ResetSlots", 4) \o OpImm("ResetSlots", 4)

\* Scenario F: default at byte 26, table entries 27, 28, 29
ScenarioF ==
  OpImm("I32Const", 2)
  \o Op("JmpTable") \o NatWord(26, 4) \o NatWord(3, 4)
  \o NatWord(27, 4) \o NatWord(28, 4) \o NatWord(29, 4)
  \o Op("Unreachable") \o Op("NotSupported") \o Op("Unreachable") \o Op("Halt")

\* Two nested calls: main calls f (at 21) with one argument, f calls g (at 47) with
\* its argument and stores what g left on the operand stack, both return; then
\* Halt (at 20).
NestedCalls ==
  OpImm("I32Const", 5) \o OpImm("I32Const", 21) \o OpImm("I32Const", 0)
  \o OpImm("Call", 1) \o Op("Halt")
  \o OpImm("GetLocal", 0) \o OpImm("I32Const", 47) \o OpImm("I32Const", 0)
  \o OpImm("Call", 1) \o OpImm("SetLocal", 0) \o Op("Return")
  \o OpImm("GetLocal", 0) \o OpImm("TeeLocal", 0) \o Op("Return")

\* A function (at 16) that calls itself until the call stack is full.
Recursion ==
  OpImm("I32Const", 16) \o OpImm("I32Const", 0) \o OpImm("Call", 0) \o Op("Halt")
  \o OpImm("I32Const", 16) \o OpImm("I32Const", 1) \o OpImm("Call", 0) \o Op("Return")

\* The first run (slot 0 is zero) sets slot 0 and calls the code at 20 again and
\* again with the two arguments -1, -1 until a frame no longer fits the call stack;
\* a later run (slot 0 is set) jumps to the GetLocal at 53, which reads what the
\* failed Call left on the call stack as a frame.
BrokenCall ==
  OpImm("GetSlot", 0) \o OpImm("JmpIf", 53) \o OpImm("I32Const", 1) \o OpImm("SetSlot", 0)
  \o OpRaw("I64Const", MinusOne64) \o OpRaw("I64Const", MinusOne64)
  \o OpImm("I32Const", 20) \o OpImm("I32Const", 0) \o OpImm("Call", 2)
  \o OpImm("GetLocal", 0) \o Op("Halt")

\* A loop that resets the slots on every round.
ResetLoop == OpImm("ResetSlots", 2) \o OpImm("Jmp", 0)

\* A reset the host refuses, then a second one.
ResetRefused == OpImm("ResetSlots", 5) \o OpImm("ResetSlots", 1) \o Op("Halt")

\* A reset and a clean halt, then slot accesses.
ResetThenUse ==
  OpImm("ResetSlots", 2) \o OpImm("I32Const", 9) \o OpImm("SetSlot", 1)
  \o OpImm("GetSlot", 1) \o OpImm("GetSlot", 2) \o Op("Halt")

\* A loop that counts a slot down from 2 (bytes 0..9 set it up, the loop is at 10).
CountDown ==
  OpImm("I32Const", 2) \o OpImm("SetSlot", 0)
  \o OpImm("GetSlot", 0) \o OpImm("I32Const", 1) \o Op("I32Sub") \o Op("Dup")
  \o OpImm("SetSlot", 0) \o OpImm("JmpIf", 10) \o Op("Halt")

\* A call with the two arguments 7 and 9 and two locals; the callee (at 26) reads its
\* four locals and then a fifth.
ArgsAndLocals ==
  OpImm("I32Const", 7) \o OpImm("I32Const", 9) \o OpImm("I32Const", 26)
  \o OpImm("I32Const", 2) \o OpImm("Call", 2) \o Op("Halt")
  \o OpImm("GetLocal", 0) \o OpImm("GetLocal", 1) \o OpImm("GetLocal", 2)
  \o OpImm("GetLocal", 3) \o OpImm("GetLocal", 4) \o Op("Halt")

\* A call with the argument 7 and one local; the callee (at 21) sets its two locals
\* to 9 and then names a third.
LocalsInFrame ==
  OpImm("I32Const", 7) \o OpImm("I32Const", 21) \o OpImm("I32Const", 1)
  \o OpImm("Call", 1) \o Op("Halt")
  \o OpImm("I32Const", 9) \o OpImm("TeeLocal", 1) \o OpImm("SetLocal", 0)
  \o OpImm("I32Const", 8) \o OpImm("SetLocal", 2) \o Op("Return")

\* The memory grown by nothing and then by two bytes, its length read after each.
GrowTwice ==
  OpImm("I32Const", 0) \o Op("GrowMemory") \o Op("CurrentMemory")
  \o OpImm("I32Const", 2) \o Op("GrowMemory") \o Op("CurrentMemory") \o Op("Halt")

\* Slot 1 written and read back, then a slot read by a negative index cell whose
\* low half is 1.
SlotByNegativeIndex ==
  OpImm("I32Const", 9) \o OpImm("SetSlot", 1) \o OpImm("GetSlot", 1)
  \o OpRaw("I64Const", <<1, 0, 0, 0, 255, 255, 255, 255>>) \o Op("GetSlotIndirect")
  \o Op("Halt")

\* main calls f (at 21) with the argument 7, f calls g (at 47) with the argument 3,
\* g sets its local to 9 and returns, f reads its local and halts (at 46).
CalleeWritesLocal ==
  OpImm("I32Const", 7) \o OpImm("I32Const", 21) \o OpImm("I32Const", 0)
  \o OpImm("Call", 1) \o Op("Halt")
  \o OpImm("I32Const", 3) \o OpImm("I32Const", 47) \o OpImm("I32Const", 0)
  \o OpImm("Call", 1) \o OpImm("GetLocal", 0) \o Op("Halt")
  \o OpImm("I32Const", 9) \o OpImm("TeeLocal", 0) \o Op("Return")

\* A loop that never ends by itself.
Spin == Op("Nop") \o OpImm("Jmp", 0)

\* Bytes that are no opcode: after three Nops, and after one Nop.
NopThenZero == [i \in 1..3 |-> OpByte("Nop")] \o <<0>>
NopThenNever == Op("Nop") \o <<OpByte("Never")>>
NopThenLast == Op("Nop") \o <<255>>

\* Two native calls that return a value, then Halt.
NativeTwice == OpImm("NativeInvoke", 1) \o OpImm("NativeInvoke", 1) \o Op("Halt")

\* A jump table of two entries (at 26: Halt, at 27: Unreachable; default at 28:
\* NotSupported) on the index cell idx.
TableOn(idx) ==
  OpRaw("I64Const", idx)
  \o Op("JmpTable") \o NatWord(28, 4) \o NatWord(2, 4) \o NatWord(26, 4) \o NatWord(27, 4)
  \o Op("Halt") \o Op("Unreachable") \o Op("NotSupported")
TableIndexes ==
  {NatWord(0, 8), NatWord(1, 8), NatWord(2, 8), NatWord(3, 8), MinusOne64,
   <<0, 0, 0, 0, 0, 0, 0, 128>>,
   <<1, 0, 0, 0, 255, 255, 255, 255>>, TwoTo32, <<1, 0, 0, 0, 1, 0, 0, 0>>}
TablePrograms == {TableOn(idx) : idx \in TableIndexes}

ScenarioPrograms ==
  {ScenarioA, ScenarioB, ScenarioBAddrFirst, ScenarioC, ScenarioD, ScenarioE, ScenarioF,
   NestedCalls, Recursion, BrokenCall, ResetLoop, ResetRefused, ResetThenUse, CountDown,
   ArgsAndLocals, NativeTwice, LocalsInFrame, GrowTwice, SlotByNegativeIndex,
   CalleeWritesLocal}

\* Programs for the host with an opcode budget only: without one Spin never returns.
BudgetPrograms == {Spin, NopThenZero, NopThenNever, NopThenLast}

\* Every proper prefix of every scenario program: code streams that end inside an
\* instruction or without a Halt.
Prefixes(P) == UNION {{Slice(p, 0, n) : n \in 0..Len(p)} : p \in P}

\* Addresses and offsets around the ends of a memory of MemSmall bytes and of the
\* u32 range.
MemSmall == 8
AccessAddrs ==
  {NatWord(0, 8), NatWord(1, 8), NatWord(4, 8), NatWord(6, 8), NatWord(7, 8), NatWord(8, 8),
   ZeroExt(AllOnes32, 8), MinusOne64, TwoTo32, <<1, 0, 0, 0, 255, 255, 255, 255>>}
AccessOffsets == {NatWord(0, 4), NatWord(1, 4), NatWord(8, 4), AllOnes32}

\* A load at every address and offset, and a store of the value 0x0102...08.
LoadPrograms ==
  {OpRaw("I64Const", a) \o OpRaw(op, off) \o Op("Halt") :
     a \in AccessAddrs, off \in AccessOffsets, op \in LoadOps}
StorePrograms ==
  {OpRaw("I64Const", a) \o OpRaw("I64Const", <<8, 7, 6, 5, 4, 3, 2, 129>>)
   \o OpRaw(op, off) \o Op("Halt") :
     a \in AccessAddrs, off \in AccessOffsets, op \in StoreOps}

\* Operands for the arithmetic: cells with different low and high halves.
MinCell == <<0, 0, 0, 0, 0, 0, 0, 128>>
ArithCells ==
  {NatWord(0, 8), NatWord(7, 8), ZeroExt(AllOnes32, 8), MinusTwo64, TwoTo32,
   ZeroExt(SignOnly32, 8), MinCell}

\* Operand pairs <<left, right>>: zero and non-zero right operands, a right operand
\* that is zero as an i32 only, both signs, and the pairs on which signed division
\* wraps.
ArithPairs ==
  {<<NatWord(7, 8), NatWord(0, 8)>>, <<NatWord(0, 8), NatWord(0, 8)>>,
   <<MinusTwo64, NatWord(7, 8)>>, <<NatWord(7, 8), MinusTwo64>>,
   <<NatWord(7, 8), TwoTo32>>, <<ZeroExt(AllOnes32, 8), NatWord(7, 8)>>,
   <<MinCell, MinusOne64>>, <<ZeroExt(SignOnly32, 8), ZeroExt(AllOnes32, 8)>>,
   <<ZeroExt(DeadBeef, 8), ZeroExt(DeadBeef, 8)>>}

ArithPrograms ==
  {OpRaw("I64Const", p[1]) \o OpRaw("I64Const", p[2]) \o Op(op) \o Op("Halt") :
     p \in ArithPairs, op \in BinOps \cup RelOps}
  \cup {OpRaw("I64Const", a) \o Op(op) \o Op("Halt") : a \in ArithCells, op \in UnOps}

\* I32Const with immediates on both sides of the sign bit.
ConstPrograms ==
  {OpRaw("I32Const", k) \o Op("Halt") :
     k \in {NatWord(0, 4), NatWord(1, 4), <<255, 255, 255, 127>>, SignOnly32, AllOnes32,
            DeadBeef}}

\* Select on every choice of three cells out of 0, 1, 5, 2^32.
SelectPrograms ==
  {OpRaw("I64Const", x) \o OpRaw("I64Const", y) \o OpRaw("I64Const", z)
   \o Op("Select") \o Op("Halt") :
     x \in {NatWord(0, 8), NatWord(1, 8), NatWord(5, 8), TwoTo32},
     y \in {NatWord(0, 8), NatWord(1, 8), NatWord(5, 8)},
     z \in {NatWord(0, 8), NatWord(1, 8), NatWord(5, 8), TwoTo32}}

\* Single instructions to combine freely.
InstrPool ==
  {Op("Drop"), Op("Dup"), Op("Swap2"), Op("Select"),
   OpImm("Call", 0), OpImm("Call", 1), Op("Return"), Op("Halt"),
   OpImm("GetLocal", 0), OpImm("SetLocal", 0), OpImm("TeeLocal", 1),
   Op("GetSlotIndirect"), OpImm("GetSlot", 0), OpImm("SetSlot", 1), OpImm("SetSlot", 2),
   OpImm("ResetSlots", 1), OpImm("ResetSlots", 5),
   OpImm("NativeInvoke", 0), OpImm("NativeInvoke", 1), OpImm("NativeInvoke", 2),
   Op("CurrentMemory"), Op("GrowMemory"), Op("Nop"), Op("Unreachable"), Op("NotSupported"),
   OpImm("Jmp", 0), OpImm("Jmp", 5), OpImm("Jmp", 200), OpImm("JmpIf", 0),
   Op("JmpEither") \o NatWord(0, 4) \o NatWord(200, 4),
   Op("JmpTable") \o NatWord(0, 4) \o NatWord(1, 4) \o NatWord(200, 4),
   Op("JmpTable") \o NatWord(200, 4) \o AllOnes32,
   OpImm("I32Load", 0), OpImm("I64Store", 1),
   OpImm("I32Const", 1), OpRaw("I32Const", AllOnes32), OpRaw("I64Const", MinusOne64),
   OpImm("I32Const", 0),
   Op("I32Clz"), Op("I32Add"), Op("I64DivS"), Op("I32LtS"),
   <<0>>, <<OpByte("Never")>>, <<255>>}

\* Three pushes for the instructions that pop.
Prelude == OpImm("I32Const", 1) \o OpRaw("I64Const", MinusOne64) \o OpImm("I32Const", 2)

\* Every instruction of the pool on an empty stack, and every pair of them after
\* the three pushes.
GeneratedPrograms ==
  InstrPool \cup {Prelude \o a \o b : a \in InstrPool, b \in InstrPool \cup {<<>>}}

\* Initializer blobs: records {addr, len, data}, complete and cut short.
Rec(addr, data) == NatWord(addr, 4) \o NatWord(Len(data), 4) \o data
CompleteBlobs ==
  {<<>>, Rec(1, <<10, 11>>), Rec(1, <<10, 11>>) \o Rec(2, <<20, 21, 22>>), Rec(6, <<1, 2>>),
   Rec(7, <<1, 2>>), Rec(8, <<>>), Rec(7, <<>>), Rec(0, <<9>>) \o Rec(9, <<1>>) \o Rec(1, <<3>>),
   AllOnes32 \o NatWord(0, 4), NatWord(0, 4) \o AllOnes32}
Blobs ==
  CompleteBlobs
  \cup {Rec(1, <<10, 11>>) \o Slice(Rec(2, <<20, 21, 22>>), 0, n) : n \in 1..10}
  \cup {Slice(Rec(2, <<20, 21, 22>>), 0, n) : n \in 1..10}

\* A module image: the length of the initializers as a u32, the initializers, the
\* code.
Image(initializers, program) == NatWord(Len(initializers), 4) \o initializers \o program

\* Images that are too short for their length field or have none, images whose
\* length field is exact (no code), and length fields with a byte set in each place.
OtherImages ==
  {<<>>, <<0>>, <<0, 0>>, <<0, 0, 0>>, <<0, 0, 0, 0>>, <<1, 0, 0, 0>>, <<0, 0, 0, 0, 7>>,
   <<1, 0, 0, 0, 9>>, <<2, 0, 0, 0, 9>>, <<2, 0, 0, 0, 9, 9>>, <<3, 0, 0, 0, 9, 9>>,
   <<0, 1, 0, 0, 7, 7, 7>>, <<0, 0, 1, 0, 7, 7, 7>>, <<0, 0, 0, 1, 7, 7, 7>>,
   <<1, 0, 0, 1, 7, 7, 7>>, AllOnes32, AllOnes32 \o <<7, 7>>, SignOnly32 \o <<7>>}
  \cup {Slice(Image(Rec(1, <<10, 11>>), ScenarioA), 0, n) : n \in 0..16}

(***************************************************************************)
(* The state machine: a host reads a module image, frames it               *)
(* (Module::from_raw), builds the VM (VirtualMachine::new), may run the    *)
(* memory initializers, and calls run, possibly again after it returned.   *)
(***************************************************************************)

\* The length of the operand stack and of the call stack, the number of slots the
\* host starts with, and how often the host calls run.
StackLen == 4
CallStackLen == 6
InitialSlots == 2
MaxRuns == 2
\* The opcode budget of the host that has one.
Budget == 3

\* he_eval.rs: `mem: vec![0; 1048576]`
MiB == 1048576

\* The small memory: MemSmall bytes, none of them zero, every other one negative
\* as an i8.
SmallMemory == [len |-> MemSmall, bytes |-> [a \in 0..(MemSmall - 1) |-> ((a % 2) * 128) + a + 1]]
BigMemory == [len |-> MiB, bytes |-> <<>>]
NoMemory == [len |-> 0, bytes |-> <<>>]

\* The runs the model starts: the module, the environment, and whether the host
\* calls run_memory_initializers before run (he_eval.rs does).
Configs ==
  [code : ScenarioPrograms, mi : {<<>>}, mem : {BigMemory}, fuel : {-1, Budget},
   init : {FALSE}]
  \cup [code : Prefixes({ScenarioA, ScenarioC, ScenarioF}), mi : {<<>>}, mem : {BigMemory},
        fuel : {-1}, init : {FALSE}]
  \cup [code : LoadPrograms \cup StorePrograms, mi : {<<>>}, mem : {SmallMemory},
        fuel : {-1}, init : {FALSE}]
  \cup [code : {p \in LoadPrograms \cup StorePrograms : Slice(p, 1, 9) = NatWord(0, 8)},
        mi : {<<>>}, mem : {NoMemory}, fuel : {-1}, init : {FALSE}]
  \cup [code : ArithPrograms \cup ConstPrograms \cup SelectPrograms \cup GeneratedPrograms,
        mi : {<<>>}, mem : {SmallMemory}, fuel : {-1}, init : {FALSE}]
  \cup [code : {ScenarioA}, mi : Blobs, mem : {SmallMemory}, fuel : {-1}, init : {TRUE}]
  \cup [code : BudgetPrograms, mi : {<<>>}, mem : {SmallMemory}, fuel : {Budget},
        init : {FALSE}]
  \cup [code : TablePrograms, mi : {<<>>}, mem : {SmallMemory}, fuel : {-1}, init : {FALSE}]

\* The images the host reads: the modules of Configs framed, and the other images.
Images ==
  {[raw |-> Image(c.mi, c.code), mem |-> c.mem, fuel |-> c.fuel, init |-> c.init] :
     c \in Configs}
  \cup [raw : OtherImages, mem : {SmallMemory}, fuel : {-1}, init : {TRUE}]

\* The images for the host that builds two VMs: every run of these programs returns.
TwinImages ==
  {[raw |-> Image(<<>>, program), mem |-> BigMemory, fuel |-> f, init |-> FALSE] :
     program \in ScenarioPrograms \cup BudgetPrograms, f \in {Budget}}
  \cup {[raw |-> Image(<<>>, program), mem |-> BigMemory, fuel |-> -1, init |-> FALSE] :
          program \in ScenarioPrograms}

\* VirtualMachine::new on a fresh environment (he_eval.rs, main) for the module
\* that Module::from_raw yields for the image raw.
NewVm(raw, memory, budget) ==
  [code |-> TapeFrom(ModuleFromRaw(raw).code),
   stack |-> TapeFrom([i \in 1..StackLen |-> Zero64]),
   cs |-> TapeFrom([i \in 1..CallStackLen |-> Zero64]),
   mem |-> memory,
   slots |-> [i \in 1..InitialSlots |-> Zero64],
   fuse |-> FALSE,
   fuel |-> budget,
   res |-> "NotStarted",
   resetCalls |-> 0]

\* The host has read the image cfg.raw (he_eval.rs, main) and prepared the
\* environment.
InitOf(cfg, two) ==
  /\ image = [raw |-> cfg.raw, res |-> "NotLoaded"]
  /\ code = TapeFrom(<<>>)
  /\ mi = <<>>
  /\ stack = TapeFrom([i \in 1..StackLen |-> Zero64])
  /\ callStack = TapeFrom([i \in 1..CallStackLen |-> Zero64])
  /\ mem = cfg.mem
  /\ slots = [i \in 1..InitialSlots |-> Zero64]
  /\ fuse = FALSE
  /\ fuel = cfg.fuel
  /\ res = "NotStarted"
  /\ initRes = IF cfg.init THEN "NotRun" ELSE "Skipped"
  /\ runs = 0
  /\ resetCalls = 0
  /\ lastOp = ""
  /\ frames = <<>>
  /\ twin = [on |-> two, vm |-> NewVm(cfg.raw, cfg.mem, cfg.fuel), runs |-> 0, lead |-> 0]

Init == \E cfg \in Images : InitOf(cfg, FALSE)

\* The VM and its environment as one record.
Cur ==
  [code |-> code, stack |-> stack, cs |-> callStack, mem |-> mem, slots |-> slots,
   fuse |-> fuse, fuel |-> fuel, res |-> res, resetCalls |-> resetCalls]

\* The second VM after the first has taken a step.
Behind(tw) == IF tw.on THEN [tw EXCEPT !.lead = @ - 1] ELSE tw

\* The opcode the next iteration of run decodes ("" when the fetch fails).
NextOp == Fetch(Cur).op

\* What a Call that completed leaves for its Return: the call stack position before
\* and after it, the code position after its immediate, the operand stack position
\* and the argument count it found, and the cells of the caller's frames.
FrameOf(t) ==
  [csBefore |-> callStack.pos, csAfter |-> t.cs.pos, ret |-> code.pos + 5,
   sp |-> stack.pos, nArgs |-> WordNat(Slice(code.data, code.pos + 1, code.pos + 5)),
   below |-> SubSeq(callStack.data, 1, callStack.pos)]

\* A Return matches the last Call that has not returned when the call stack is
\* where that Call left it.
Matching == frames # <<>> /\ callStack.pos = frames[Len(frames)].csAfter

\* The calls that have not returned after an iteration that ends in t.  A Call or
\* Return that fails, or a Return without a matching Call, leaves cells on the call
\* stack that belong to no Call.
FramesAfter(op, t) ==
  IF op = "Call" /\ fuel # 0
  THEN IF Running(t) THEN Append(frames, FrameOf(t))
       ELSE IF t.cs = callStack THEN frames ELSE <<>>
  ELSE IF op = "Return" /\ fuel # 0
  THEN IF Running(t) /\ Matching THEN SubSeq(frames, 1, Len(frames) - 1)
       ELSE IF t.cs = callStack THEN frames ELSE <<>>
  ELSE frames

\* Module::from_raw on the image, and VirtualMachine::new on its result; the host
\* goes no further when it is an error (he_eval.rs: unwrap).
LoadModule ==
  /\ image.res = "NotLoaded"
  /\ LET m == ModuleFromRaw(image.raw)
     IN  /\ image' = [image EXCEPT !.res = IF m.err = "" THEN "Ok" ELSE m.err]
         /\ code' = TapeFrom(m.code)
         /\ mi' = m.memory_initializers
  /\ UNCHANGED <<stack, callStack, mem, slots, fuse, fuel, res, initRes, runs, resetCalls,
                 lastOp, frames, twin>>

\* VirtualMachine::run_memory_initializers
RunMemoryInitializers ==
  /\ image.res = "Ok"
  /\ res = "NotStarted"
  /\ initRes = "NotRun"
  /\ LET t == RunMemoryInitializersOf(Cur, mi)
     IN  /\ mem' = t.mem
         /\ initRes' = t.res
  /\ UNCHANGED <<image, code, mi, stack, callStack, slots, fuse, fuel, res, runs,
                 resetCalls, lastOp, frames, twin>>

\* VirtualMachine::run is called: `let code = Tape::from(self.module.code)`
StartRun ==
  /\ image.res = "Ok"
  /\ res \notin {"Running", "Panic"}
  /\ initRes # "NotRun"
  /\ runs < MaxRuns
  /\ code' = TapeFrom(code.data)
  /\ res' = "Running"
  /\ runs' = runs + 1
  /\ lastOp' = ""
  /\ twin' = Behind(twin)
  /\ UNCHANGED <<image, mi, stack, callStack, mem, slots, fuse, fuel, initRes, resetCalls,
                 frames>>

\* One iteration of the loop of run that decodes one of the opcodes ops ("": the
\* code is at its end, or the byte is no opcode).
Step(ops) ==
  /\ res = "Running"
  /\ NextOp \in ops
  /\ LET t == RunStep(Cur)
     IN  /\ code' = t.code
         /\ stack' = t.stack
         /\ callStack' = t.cs
         /\ mem' = t.mem
         /\ slots' = t.slots
         /\ fuse' = t.fuse
         /\ fuel' = t.fuel
         /\ res' = t.res
         /\ resetCalls' = t.resetCalls
         /\ frames' = FramesAfter(NextOp, t)
  /\ lastOp' = NextOp
  /\ twin' = Behind(twin)
  /\ UNCHANGED <<image, mi, initRes, runs>>

FetchFails == Step({""})
StepStack == Step({"Drop", "Dup", "Swap2", "Select"})
StepCall == Step({"Call"})
StepReturn == Step({"Return"})
StepHalt == Step({"Halt"})
StepLocal == Step({"GetLocal", "SetLocal", "TeeLocal"})
StepSlot == Step({"GetSlotIndirect", "GetSlot", "SetSlot"})
StepResetSlots == Step({"ResetSlots"})
StepNativeInvoke == Step({"NativeInvoke"})
StepMemorySize == Step({"CurrentMemory", "GrowMemory"})
StepTrap == Step({"Nop", "Unreachable", "NotSupported"})
StepJump == Step({"Jmp", "JmpIf", "JmpEither", "JmpTable"})
StepLoad == Step(LoadOps)
StepStore == Step(StoreOps)
StepConst == Step({"I32Const", "I64Const"})
StepUnop == Step(UnOps)
StepBinop == Step(BinOps)
StepRelop == Step(RelOps)

Next ==
  \/ LoadModule
  \/ RunMemoryInitializers
  \/ StartRun
  \/ FetchFails
  \/ StepStack
  \/ StepCall
  \/ StepReturn
  \/ StepHalt
  \/ StepLocal
  \/ StepSlot
  \/ StepResetSlots
  \/ StepNativeInvoke
  \/ StepMemorySize
  \/ StepTrap
  \/ StepJump
  \/ StepLoad
  \/ StepStore
  \/ StepConst
  \/ StepUnop
  \/ StepBinop
  \/ StepRelop

Spec == Init /\ [][Next]_vars

\* One iteration of the loop of run, whatever it decodes.
Iterate == Step({OpcodeNames[i] : i \in 1..Len(OpcodeNames)} \cup {""})

\* run is a loop without a suspension point: while it is in the loop it goes on to
\* the next iteration.  This is weak fairness of Iterate, with "an iteration is
\* possible" written as what it amounts to, run being in its loop.
LoopGoesOn == []<>(res # "Running") \/ []<><<Iterate>>_vars

\* The hosts with an opcode budget.
BudgetInit == \E cfg \in {i \in Images : i.fuel # -1} : InitOf(cfg, FALSE)
BudgetNext == LoadModule \/ StartRun \/ Iterate
FairSpec == BudgetInit /\ [][BudgetNext]_vars /\ LoopGoesOn

\* The host calls run on the second VM.
TwinStartRun ==
  /\ twin.on
  /\ image.res = "Ok"
  /\ twin.vm.res \notin {"Running", "Panic"}
  /\ twin.runs < MaxRuns
  /\ twin' = [twin EXCEPT !.vm.code = TapeFrom(@.data), !.vm.res = "Running",
                          !.runs = @ + 1, !.lead = @ + 1]
  /\ UNCHANGED <<image, code, mi, stack, callStack, mem, slots, fuse, fuel, res, initRes,
                 runs, resetCalls, lastOp, frames>>

\* One iteration of the loop of run in the second VM.
TwinIterate ==
  /\ twin.on
  /\ twin.vm.res = "Running"
  /\ twin' = [twin EXCEPT !.vm = RunStep(@), !.lead = @ + 1]
  /\ UNCHANGED <<image, code, mi, stack, callStack, mem, slots, fuse, fuel, res, initRes,
                 runs, resetCalls, lastOp, frames>>

\* A host that builds two VMs from one module and runs each at its own pace.
TwinInit == \E cfg \in TwinImages : InitOf(cfg, TRUE)
TwinNext == LoadModule \/ StartRun \/ Iterate \/ TwinStartRun \/ TwinIterate
TwinSpec == TwinInit /\ [][TwinNext]_vars


(***************************************************************************)
(* Properties                                                              *)
(***************************************************************************)

\* The next iteration of run decodes one of the opcodes ops and trace_opcode lets
\* it execute.
Executes(ops) == res = "Running" /\ NextOp \in ops /\ fuel # 0

\* The n bytes after the opcode that is decoded next are in the code.
HasImmediate(n) == Remaining(code) >= 1 + n
Immediate(n) == Slice(code.data, code.pos + 1, code.pos + 1 + n)

\* The cell k places below the top of the operand stack (0: the top).
Operand(k) == stack.data[stack.pos - k]

\* run has returned.
Returned == res \notin {"NotStarted", "Running"}

\* C1: after every instruction that run executes, whether it completes or fails,
\* the position of the operand stack, of the call stack and of the code is
\* between 0 and the length of its buffer.
CursorsInRange ==
  /\ 0 <= stack.pos /\ stack.pos <= Len(stack.data)
  /\ 0 <= callStack.pos /\ callStack.pos <= Len(callStack.data)
  /\ 0 <= code.pos /\ code.pos <= Len(code.data)

\* A Call has failed with the call stack full, after operand cells were popped.
CallFailedOnFullCallStack ==
  /\ res = "Bounds"
  /\ lastOp = "Call"
  /\ callStack.pos = Len(callStack.data)
  /\ stack.pos = 0

\* C2: run returns success only when the instruction it fetched last is Halt, and
\* it leaves its loop in no other way than by returning an error; a fetch at the end
\* of the code returns Bounds and changes nothing of the environment.
RunReturnsOkOnHaltOrAnError ==
  [][/\ Returned' => (res' = "Ok" /\ lastOp' = "Halt") \/ res' \in Errors
     /\ res = "Running" /\ Remaining(code) = 0
          => /\ res' = "Bounds"
             /\ UNCHANGED <<stack, callStack, mem, slots, fuse, fuel, resetCalls>>]_vars

\* C3: env.reset_slots is called at most once on one VM, and a ResetSlots
\* instruction (opcode and immediate) that executes after reset_slots was called
\* returns Fuse, status -12, without another call; this also when the first call
\* returned an error, and in a later call of run.
ResetSlotsAtMostOnce ==
  [][/\ resetCalls' <= 1
     /\ Executes({"ResetSlots"}) /\ HasImmediate(4) /\ resetCalls >= 1
          => res' = "Fuse" /\ Status("Fuse") = -12 /\ resetCalls' = resetCalls]_vars

\* The host refused the first reset_slots, and a ResetSlots of the second run
\* returned Fuse.
FuseAfterRefusedReset ==
  /\ code.data = ResetRefused
  /\ runs = 2
  /\ lastOp = "ResetSlots"
  /\ res = "Fuse"
  /\ resetCalls = 1
  /\ Len(slots) = InitialSlots

\* The address operand of the load or store that is decoded next: a load finds it
\* on top of the operand stack, a store below the value.
AccessAddress == IF NextOp \in LoadOps THEN Operand(0) ELSE Operand(1)
OperandsPresent == stack.pos >= (IF NextOp \in LoadOps THEN 1 ELSE 2)
RealAddr == AddNat(WordNat(Immediate(4)), WordNat(Trunc(AccessAddress, 4)))

\* C4: a load or store of width W whose operands are on the operand stack
\* completes if and only if real_addr + W <= len(memory), where real_addr is the
\* offset plus the address modulo 2^32; when it fails it returns Bounds and leaves
\* the memory as it was.
AccessCompletesIffInBounds ==
  [][Executes(LoadOps \cup StoreOps) /\ HasImmediate(4) /\ OperandsPresent
       => LET fits == RealAddr + AccessWidth(NextOp) <= mem.len
          IN  /\ (res' = "Running") <=> fits
              /\ ~fits => res' = "Bounds" /\ mem' = mem]_vars

\* An I32Store that ends one byte after the memory has returned Bounds, and one
\* that ends with the memory's last byte has completed.
StoreOneByteTooFar ==
  /\ lastOp = "I32Store"
  /\ res = "Bounds"
  /\ mem = SmallMemory
  /\ WordNat(Slice(code.data, code.pos - 4, code.pos)) + WordNat(Trunc(stack.data[1], 4)) + 4
       = MemSmall + 1

\* C5: a Call that completes takes n_args + 2 cells from the operand stack, and
\* its matching Return, whatever balanced instructions ran in between, completes
\* with the call stack where it was before the Call and the code right after the
\* Call's immediate, and leaves the operand stack to what the callee pushed.
CallAndMatchingReturn ==
  [][/\ Executes({"Call"}) /\ res' = "Running"
          => /\ stack'.pos = stack.pos - WordNat(Immediate(4)) - 2
             /\ frames' = Append(frames, [csBefore |-> callStack.pos,
                                          csAfter |-> callStack'.pos,
                                          ret |-> code.pos + 5,
                                          sp |-> stack.pos,
                                          nArgs |-> WordNat(Immediate(4)),
                                          below |-> SubSeq(callStack.data, 1,
                                                           callStack.pos)])
     /\ Executes({"Return"}) /\ Matching
          => /\ res' = "Running"
             /\ callStack'.pos = frames[Len(frames)].csBefore
             /\ code'.pos = frames[Len(frames)].ret
             /\ stack'.pos = stack.pos]_vars

\* The outer function of NestedCalls has returned to the Halt after its Call, the
\* inner call and return behind it.
OuterCallReturned ==
  /\ code.data = NestedCalls
  /\ lastOp = "Return"
  /\ res = "Running"
  /\ frames = <<>>
  /\ code.pos = 20
  /\ callStack.pos = 0

\* The first run of a program on a host without an opcode budget has returned.
FirstRunReturned(program) ==
  code.data = program /\ fuel = -1 /\ runs = 1 /\ Returned

\* The bytes 100..103 of the memory are EF BE AD DE and 0xDEADBEEF is on top of the
\* operand stack.
DeadBeefStoredAndLoaded ==
  /\ res = "Ok"
  /\ <<ReadByte(mem, 100), ReadByte(mem, 101), ReadByte(mem, 102), ReadByte(mem, 103)>>
       = DeadBeef
  /\ stack.pos >= 1
  /\ Operand(0) = ZeroExt(DeadBeef, 8)

\* C6 as the spec states it: Scenario B, which pushes the value 0xDEADBEEF and then
\* the address 100, halts cleanly against a 1 MiB memory with EF BE AD DE in the
\* bytes 100..103 and 0xDEADBEEF on top of the operand stack.
ScenarioBRoundTrip == FirstRunReturned(ScenarioB) => DeadBeefStoredAndLoaded

\* C6, amended: Scenario B with the address 100 pushed before the value
\* 0xDEADBEEF halts cleanly against a 1 MiB memory with EF BE AD DE in the bytes
\* 100..103 and 0xDEADBEEF on top of the operand stack.
ScenarioBAddrFirstRoundTrip ==
  FirstRunReturned(ScenarioBAddrFirst) => mem.len = MiB /\ DeadBeefStoredAndLoaded

ScenarioBAddrFirstHalted == FirstRunReturned(ScenarioBAddrFirst) /\ res = "Ok"

\* C7: Select takes three cells, the topmost as the condition, and leaves the
\* deepest of them (val1) if the condition is not zero and the middle one (val2)
\* otherwise; the operand stack is two cells shorter.
SelectConditionOnTop ==
  [][Executes({"Select"}) /\ stack.pos >= 3
       => /\ res' = "Running"
          /\ stack'.pos = stack.pos - 2
          /\ stack'.data[stack'.pos] = IF IsZero(Operand(0)) THEN Operand(1) ELSE Operand(2)]_vars

\* C8: I32Const pushes its 32-bit immediate sign-extended to 64 bits.
I32ConstSignExtends ==
  [][Executes({"I32Const"}) /\ HasImmediate(4) /\ stack.pos < Len(stack.data)
       => /\ res' = "Running"
          /\ stack'.pos = stack.pos + 1
          /\ stack'.data[stack'.pos] = SignExt(Immediate(4), 8)]_vars

\* C9: a division or remainder whose divisor, the top operand cast to the
\* operation's width, is zero makes run return DivideByZero, status -13.
DivisionByZeroReturnsError ==
  [][Executes(DivRemOps) /\ stack.pos >= 2 /\ IsZero(Trunc(Operand(0), OpWidth(NextOp)))
       => res' = "DivideByZero" /\ Status("DivideByZero") = -13]_vars

\* The blob from byte i on (counted from 0) is a sequence of complete records
\* {addr, len, data}.
RECURSIVE CompleteRecordsFrom(_, _)
CompleteRecordsFrom(blob, i) ==
  IF i = Len(blob) THEN TRUE
  ELSE IF i + 8 > Len(blob) THEN FALSE
  ELSE LET data_len == WordNat(Slice(blob, i + 4, i + 8))
       IN  IF i + 8 + data_len > Len(blob) THEN FALSE
           ELSE CompleteRecordsFrom(blob, i + 8 + data_len)

\* C10: run_memory_initializers returns Bounds when bytes that do not make a
\* complete record follow the last complete record of the blob, and returns
\* success only when the blob ends where a record ends.
PartialRecordReturnsBounds ==
  initRes \notin {"Skipped", "NotRun"}
    => /\ ~CompleteRecordsFrom(mi, 0) => initRes = "Bounds"
       /\ initRes = "Ok" => CompleteRecordsFrom(mi, 0)

\* C11: run calls trace_opcode exactly once for every instruction it decodes (a
\* host that counts its budget down sees it go down by one), after the decoding
\* and before any effect of the instruction: when trace_opcode returns an error,
\* run returns that error and only the code position has changed, by the opcode
\* byte; a byte that does not decode, or a fetch at the end of the code, does not
\* reach trace_opcode.
TraceOpcodeOncePerInstruction ==
  [][res = "Running" =>
       /\ NextOp = "" => fuel' = fuel /\ res' \in {"Bounds", "IllegalOpcode"}
       /\ NextOp # "" /\ fuel > 0 => fuel' = fuel - 1
       /\ NextOp # "" /\ fuel = -1 => fuel' = -1 /\ res' # "ExecutionLimit"
       /\ NextOp # "" /\ fuel = 0 =>
            /\ res' = "ExecutionLimit"
            /\ code' = [code EXCEPT !.pos = @ + 1]
            /\ UNCHANGED <<stack, callStack, mem, slots, fuse, fuel, resetCalls>>]_vars

\* trace_opcode has refused an I32Const of CountDown that would have pushed a second
\* cell.
TraceRefusedBeforePush ==
  /\ code.data = CountDown
  /\ res = "ExecutionLimit"
  /\ lastOp = "I32Const"
  /\ fuel = 0
  /\ stack.pos = 1

\* C12: with a host whose trace_opcode allows a budget of instructions and then
\* returns an error, every call of run returns, whatever the code (loops and
\* recursion included), and no more instructions than the budget take effect:
\* every iteration either uses up one unit of a budget that never goes below zero,
\* or ends the run and changes nothing but the code position.
BudgetedRunTerminates ==
  /\ [][res = "Running" /\ fuel # -1 =>
          /\ fuel' \in {fuel, fuel - 1}
          /\ fuel' >= 0
          /\ fuel' = fuel =>
               /\ res' # "Running"
               /\ UNCHANGED <<stack, callStack, mem, slots, fuse, resetCalls>>]_vars
  /\ (res = "Running" /\ fuel # -1) ~> (res # "Running")

\* The budget has ended the loop of Spin.
SpinStopped == code.data = Spin /\ res = "ExecutionLimit" /\ lastOp \in {"Nop", "Jmp"} /\ fuel = 0

IllegalBytesAreRefused ==
  /\ \A v \in 0..255 :
       LET d == OpcodeFromRaw(v)
       IN  /\ d.err = "" <=> 1 <= v /\ v < OpByte("Never")
           /\ d.err = "" => OpByte(d.op) = v
           /\ d.err # "" => d.err = "IllegalOpcode" /\ d.op = ""
  /\ [][/\ res = "Running"
         /\ Remaining(code) >= 1
         /\ (code.data[code.pos + 1] = 0 \/ code.data[code.pos + 1] >= OpByte("Never"))
         => /\ res' = "IllegalOpcode"
            /\ Status(res') = -4
            /\ UNCHANGED <<stack, callStack, mem, slots, fuse, fuel, resetCalls>>]_vars

\* run has fetched the byte of the sentinel Never after a Nop.
NeverByteRefused ==
  code.data = NopThenNever /\ code.pos = 2 /\ res = "IllegalOpcode" /\ lastOp = ""

\* The u32 that the first four bytes of buf spell, least significant byte first;
\* from 2^30 on, which is more than any image is long, it is given as 2^30.
LengthField(buf) ==
  IF buf[4] >= 64 THEN 1073741824
  ELSE buf[1] + 256 * buf[2] + 65536 * buf[3] + 16777216 * buf[4]

\* C15: Module::from_raw(buf) succeeds exactly when buf has at least 4 bytes and at
\* least 4 + L, L being the little-endian u32 in its first four bytes; then the
\* initializers are the L bytes after the first four and the code is the rest, so
\* that the two together are all of buf after the first four bytes; in every other
\* case it returns Bounds.
FromRawFramesTheImage ==
  [][image.res = "NotLoaded" /\ image'.res # "NotLoaded" =>
       LET buf == image.raw
           fits == Len(buf) >= 4 /\ Len(buf) >= 4 + LengthField(buf)
       IN  /\ image'.res = "Ok" <=> fits
           /\ ~fits => image'.res = "Bounds"
           /\ fits =>
                /\ mi' = SubSeq(buf, 5, 4 + LengthField(buf))
                /\ code' = [data |-> SubSeq(buf, 5 + LengthField(buf), Len(buf)), pos |-> 0]
                /\ mi' \o code'.data = SubSeq(buf, 5, Len(buf))]_vars

\* An image whose length field takes all that is left: two bytes of initializers,
\* no code.
ImageWithoutCodeFramed ==
  image = [raw |-> <<2, 0, 0, 0, 9, 9>>, res |-> "Ok"] /\ mi = <<9, 9>> /\ code.data = <<>>

\* C16: ExecuteError::status maps the 13 error kinds one-to-one onto -1..-13 in
\* the order of their declaration (Generic -1, Bounds -2, Unreachable -3,
\* IllegalOpcode -4, InvalidNativeInvoke -5, NotSupported -6, InvalidInput -7,
\* ExecutionLimit -8, MemoryLimit -9, SlotLimit -10, FatalSignal -11, Fuse -12,
\* DivideByZero -13); no status is zero or positive, and so is none of an error
\* that run returns.
StatusCodes ==
  /\ Status("Generic") = -1
  /\ Status("Bounds") = -2
  /\ Status("Unreachable") = -3
  /\ Status("IllegalOpcode") = -4
  /\ Status("InvalidNativeInvoke") = -5
  /\ Status("NotSupported") = -6
  /\ Status("InvalidInput") = -7
  /\ Status("ExecutionLimit") = -8
  /\ Status("MemoryLimit") = -9
  /\ Status("SlotLimit") = -10
  /\ Status("FatalSignal") = -11
  /\ Status("Fuse") = -12
  /\ Status("DivideByZero") = -13
  /\ Cardinality(Errors) = 13
  /\ {Status(e) : e \in Errors} = -13..-1
  /\ \A e, f \in Errors : Status(e) = Status(f) => e = f
  /\ res \in Errors => Status(res) < 0

\* run has returned the error of the host that refuses the slots, status -10.
SlotLimitReturned == res = "SlotLimit" /\ lastOp = "ResetSlots" /\ Status(res) = -10

\* The number of locals and arguments that the top frame of the call stack records.
FrameSize == WordNat(callStack.data[callStack.pos - 1])

\* C17: a Call with the immediate n_args that completes leaves as the top frame of
\* the call stack the n_args arguments in the order in which they were pushed on
\* the operand stack (the deepest first), then n_locals zero cells, then
\* N = n_args + n_locals, then the code position after its immediate; GetLocal i
\* with i < N pushes cell i of the top frame, the argument i for i < n_args and 0
\* for a local that was not written.  ArgsAndLocals reads 7, 9, 0, 0 and fails on
\* GetLocal 4; Scenario C halts with 8 on top of the operand stack.
CallFrameLayout ==
  /\ [][Executes({"Call"}) /\ HasImmediate(4) /\ res' = "Running" =>
          LET n_args == WordNat(Immediate(4))
              n_locals == WordNat(Operand(0))
              base == callStack.pos
          IN  /\ stack'.pos = stack.pos - 2 - n_args
              /\ callStack'.pos = base + n_args + n_locals + 2
              /\ \A i \in 1..n_args :
                   callStack'.data[base + i] = stack.data[stack.pos - 2 - n_args + i]
              /\ \A i \in 1..n_locals : callStack'.data[base + n_args + i] = Zero64
              /\ callStack'.data[base + n_args + n_locals + 1] = NatWord(n_args + n_locals, 8)
              /\ callStack'.data[base + n_args + n_locals + 2] = NatWord(code.pos + 5, 8)
              /\ \A i \in 1..base : callStack'.data[i] = callStack.data[i]]_vars
  /\ [][/\ Executes({"GetLocal"}) /\ HasImmediate(4)
         /\ callStack.pos >= 2 /\ callStack.pos >= FrameSize + 2
         /\ WordNat(Immediate(4)) < FrameSize
         /\ stack.pos < Len(stack.data)
         => /\ res' = "Running"
            /\ stack'.pos = stack.pos + 1
            /\ stack'.data[stack.pos + 1]
                 = callStack.data[callStack.pos - 2 - FrameSize + WordNat(Immediate(4)) + 1]
            /\ callStack' = callStack]_vars
  /\ [](FirstRunReturned(ArgsAndLocals) =>
          /\ res = "Bounds" /\ lastOp = "GetLocal" /\ stack.pos = 4
          /\ SubSeq(stack.data, 1, 4) = <<NatWord(7, 8), NatWord(9, 8), Zero64, Zero64>>)
  /\ [](FirstRunReturned(ScenarioC) =>
          res = "Ok" /\ stack.pos = 1 /\ stack.data[1] = NatWord(8, 8))

\* The callee of ArgsAndLocals has read its two arguments and its two locals.
ArgumentsAndLocalsRead ==
  /\ code.data = ArgsAndLocals /\ fuel = -1 /\ runs = 1
  /\ res = "Running" /\ lastOp = "GetLocal" /\ code.pos = 46
  /\ stack.pos = 4

\* The complete records {addr, len, data} of the blob from byte i on (counted from
\* 0), in their order, up to the first that is cut short.
RECURSIVE RecordsFrom(_, _)
RecordsFrom(blob, i) ==
  IF i + 8 > Len(blob) THEN <<>>
  ELSE LET data_len == LengthField(Slice(blob, i + 4, i + 8))
       IN  IF i + 8 + data_len > Len(blob) THEN <<>>
           ELSE <<[addr |-> LengthField(Slice(blob, i, i + 4)),
                   data |-> Slice(blob, i + 8, i + 8 + data_len)]>>
                \o RecordsFrom(blob, i + 8 + data_len)

\* The record r lies within a memory of len bytes.
RecordFits(r, len) == r.addr < len /\ r.addr + Len(r.data) <= len

\* The records of the blob before the first one that does not lie within the memory.
RecordsApplied(blob, len) ==
  LET recs == RecordsFrom(blob, 0)
      bad == {j \in 1..Len(recs) : ~RecordFits(recs[j], len)}
  IN  IF bad = {} THEN recs
      ELSE SubSeq(recs, 1, (CHOOSE j \in bad : \A k \in bad : j <= k) - 1)

\* The byte at address a after the records recs were copied in their order over the
\* memory m: that of the last record that covers a, or that of m.
ByteAfter(recs, m, a) ==
  LET over == {j \in 1..Len(recs) : recs[j].addr <= a /\ a < recs[j].addr + Len(recs[j].data)}
  IN  IF over = {} THEN m.bytes[a]
      ELSE LET last == CHOOSE j \in over : \A k \in over : k <= j
           IN  recs[last].data[a - recs[last].addr + 1]

\* C18: run_memory_initializers copies the records in the order of the blob: the
\* memory afterwards is the initial memory with the bytes of each record at its
\* address, a later record over an earlier one, and every other byte as it was; a
\* record with addr >= len(memory) or addr + len > len(memory), an empty record at
\* addr = len(memory) included, makes it return Bounds with the records before it
\* copied and none after it.
InitializersCopiedInOrder ==
  initRes \notin {"Skipped", "NotRun"} =>
    LET recs == RecordsFrom(mi, 0)
        applied == RecordsApplied(mi, SmallMemory.len)
    IN  /\ mem.len = SmallMemory.len
        /\ \A a \in 0..(mem.len - 1) : mem.bytes[a] = ByteAfter(applied, SmallMemory, a)
        /\ Len(applied) < Len(recs) => initRes = "Bounds"
        /\ initRes = "Ok" => applied = recs

\* The second of three records lies outside the memory: the first was copied, the
\* third was not.
SecondRecordOutside ==
  /\ mi = Rec(0, <<9>>) \o Rec(9, <<1>>) \o Rec(1, <<3>>)
  /\ initRes = "Bounds"
  /\ mem.bytes[0] = 9
  /\ mem.bytes[1] = SmallMemory.bytes[1]

\* The u32 at byte i (counted from 0) of the code.
CodeWord(i) == LengthField(Slice(code.data, i, i + 4))

\* C19: JmpTable with the immediates default, n and a table of n entries pops the
\* index cell and sets the code position to entry i of the table when the cell is
\* a number i < n, and to default when it is n or more, or negative.  Scenario F
\* (index 2 of 3, entry 2 pointing at Halt) halts cleanly and executes no
\* instruction at default, at entry 0 or at entry 1.
JmpTableTakesEntryOrDefault ==
  /\ [][/\ Executes({"JmpTable"})
         /\ stack.pos >= 1
         /\ HasImmediate(8)
         /\ CodeWord(code.pos + 5) <= Len(code.data)
         /\ HasImmediate(8 + 4 * CodeWord(code.pos + 5))
         => LET cell == Operand(0)
                n == CodeWord(code.pos + 5)
                small == \A k \in 5..8 : cell[k] = 0
                i == LengthField(SubSeq(cell, 1, 4))
                target == IF small /\ i < n THEN CodeWord(code.pos + 9 + 4 * i)
                          ELSE CodeWord(code.pos + 1)
            IN  /\ stack'.pos = stack.pos - 1
                /\ target <= Len(code.data) => res' = "Running" /\ code'.pos = target
                /\ target > Len(code.data) => res' = "Bounds"]_vars
  /\ [](code.data = ScenarioF /\ res = "Running" => code.pos \notin {26, 27, 28})
  /\ [](FirstRunReturned(ScenarioF) => res = "Ok" /\ lastOp = "Halt" /\ code.pos = 30)

\* A negative index cell whose low half is 1 has taken the default entry of TableOn.
NegativeIndexTookDefault ==
  /\ code.data = TableOn(<<1, 0, 0, 0, 255, 255, 255, 255>>)
  /\ res = "NotSupported"
  /\ code.pos = 29

\* The next two iterations of run decode the opcodes first and second, one after
\* the other in the code, and trace_opcode lets both execute.
ExecutesPair(first, second) ==
  /\ res = "Running"
  /\ Remaining(code) >= 2
  /\ code.data[code.pos + 1] = OpByte(first)
  /\ code.data[code.pos + 2] = OpByte(second)
  /\ fuel \notin {0, 1}

\* The live cells of the operand stack tape t: those below its position.
Live(t) == SubSeq(t.data, 1, t.pos)

\* C20: on an operand stack with a live cell and a reserve cell, Dup and then Drop
\* leave the position and every live cell as they were; on a stack with two live
\* cells, Swap2 twice leaves the position and every live cell as they were, and
\* one Swap2 exchanges the two topmost live cells and changes no other cell.
DupDropAndSwapTwice ==
  /\ [](ExecutesPair("Dup", "Drop") /\ stack.pos >= 1 /\ stack.pos < Len(stack.data) =>
          LET t == RunStep(RunStep(Cur))
          IN  t.res = "Running" /\ t.stack.pos = stack.pos /\ Live(t.stack) = Live(stack))
  /\ [](ExecutesPair("Swap2", "Swap2") /\ stack.pos >= 2 =>
          LET t == RunStep(RunStep(Cur))
          IN  t.res = "Running" /\ t.stack = stack)
  /\ [][Executes({"Swap2"}) /\ stack.pos >= 2 =>
          /\ res' = "Running"
          /\ stack'.pos = stack.pos
          /\ stack'.data[stack.pos] = stack.data[stack.pos - 1]
          /\ stack'.data[stack.pos - 1] = stack.data[stack.pos]
          /\ \A i \in 1..Len(stack.data) :
               i \notin {stack.pos - 1, stack.pos} => stack'.data[i] = stack.data[i]]_vars
  /\ [][Executes({"Dup"}) /\ stack.pos >= 1 /\ stack.pos < Len(stack.data) =>
          /\ res' = "Running"
          /\ stack'.pos = stack.pos + 1
          /\ stack'.data[stack.pos + 1] = stack.data[stack.pos]
          /\ Live(stack) = SubSeq(stack'.data, 1, stack.pos)]_vars

\* Dup and then Drop have executed on the three cells of the prelude.
DupThenDropExecuted ==
  /\ res = "Running"
  /\ lastOp = "Drop"
  /\ code.pos >= 2
  /\ code.data[code.pos] = OpByte("Drop")
  /\ code.data[code.pos - 1] = OpByte("Dup")
  /\ stack.pos = 3
  /\ Live(stack) = <<NatWord(1, 8), MinusOne64, NatWord(2, 8)>>

\* The instructions that name a local of the top frame.
LocalOps == {"GetLocal", "SetLocal", "TeeLocal"}

\* The cell N of the frame on top of the call stack, as the usize extract_locals
\* reads it, and whether the N locals and the two cells above them are on the call
\* stack.
TopN == WordNat(callStack.data[callStack.pos - 1])
FrameLive == callStack.pos >= 2 /\ TopN < Huge /\ TopN + 2 <= callStack.pos

\* The index in the call stack buffer of the local id of the top frame.
LocalAt(id) == callStack.pos - 2 - TopN + id + 1

\* C21: GetLocal, SetLocal and TeeLocal return Bounds when the call stack holds
\* fewer than two cells and when the id is not below the N of the top frame; with
\* an id below N and an operand on the stack, SetLocal pops the operand into
\* locals[id] and TeeLocal copies the top of the operand stack into locals[id] and
\* leaves the operand stack as it is; when one of the three returns Bounds, the
\* operand stack and the call stack are as they were.
LocalsAreBoundsChecked ==
  [][Executes(LocalOps) /\ HasImmediate(4) =>
       LET id == WordNat(Immediate(4))
       IN  /\ callStack.pos < 2 => res' = "Bounds"
           /\ callStack.pos >= 2 /\ TopN < Huge /\ id >= TopN => res' = "Bounds"
           /\ res' = "Bounds" => stack' = stack /\ callStack' = callStack
           /\ FrameLive /\ id < TopN /\ stack.pos >= 1 /\ NextOp = "SetLocal" =>
                /\ res' = "Running"
                /\ stack' = [stack EXCEPT !.pos = stack.pos - 1]
                /\ callStack' = [callStack EXCEPT !.data[LocalAt(id)] = Operand(0)]
           /\ FrameLive /\ id < TopN /\ stack.pos >= 1 /\ NextOp = "TeeLocal" =>
                /\ res' = "Running"
                /\ stack' = stack
                /\ callStack' = [callStack EXCEPT !.data[LocalAt(id)] = Operand(0)]]_vars

\* SetLocal 2 has returned Bounds in the frame of LocalsInFrame, whose two locals
\* TeeLocal 1 and SetLocal 0 have set to 9; the operand 8 is still on the stack.
SetLocalBeyondFrame ==
  /\ code.data = LocalsInFrame
  /\ lastOp = "SetLocal"
  /\ res = "Bounds"
  /\ FrameLive
  /\ TopN = 2
  /\ Live(callStack) = <<NatWord(9, 8), NatWord(9, 8), NatWord(2, 8), NatWord(20, 8)>>
  /\ Live(stack) = <<NatWord(8, 8)>>

\* The delta on top of the operand stack, as the usize grow_memory receives.
Delta == WordNat(Operand(0))

\* C22: GrowMemory pops delta and pushes the length the memory had before, so the
\* position of the operand stack is as it was; when the environment extends the
\* memory by delta zero bytes, the memory is delta bytes longer, the bytes below
\* the old length are as they were, the new bytes are zero, and a CurrentMemory that
\* follows pushes the old length plus delta; with delta = 0 the memory is unchanged
\* and the old length is pushed all the same.
GrowMemoryPushesOldLength ==
  /\ [][Executes({"GrowMemory"}) /\ stack.pos >= 1 =>
          /\ stack'.pos = stack.pos
          /\ stack'.data = [stack.data EXCEPT ![stack.pos] = NatWord(mem.len, 8)]
          /\ Delta <= GrowLimit =>
               /\ res' = "Running"
               /\ mem'.len = mem.len + Delta
               /\ mem'.bytes = mem.bytes
               /\ \A a \in mem.len..(mem'.len - 1) : ReadByte(mem', a) = 0
          /\ Delta = 0 => mem' = mem]_vars
  /\ [](ExecutesPair("GrowMemory", "CurrentMemory") /\ stack.pos >= 1
          /\ stack.pos < Len(stack.data) /\ Delta <= GrowLimit =>
          LET t == RunStep(RunStep(Cur))
          IN  /\ t.res = "Running"
              /\ t.stack.pos = stack.pos + 1
              /\ t.stack.data[stack.pos] = NatWord(mem.len, 8)
              /\ t.stack.data[stack.pos + 1] = NatWord(mem.len + Delta, 8))

\* GrowTwice has halted: the memory of 1 MiB was grown by 0 and by 2 bytes, and the
\* lengths pushed are the old one, the same again, the old one and the new one.
MemoryGrownByTwo ==
  /\ code.data = GrowTwice
  /\ res = "Ok"
  /\ mem.len = MiB + 2
  /\ Live(stack) = <<NatWord(MiB, 8), NatWord(MiB, 8), NatWord(MiB, 8), NatWord(MiB + 2, 8)>>

\* The next iteration executes the opcode first with the immediate id, and the one
\* after it the opcode second with the same immediate.
ExecutesOnSameId(first, second) ==
  /\ Executes({first})
  /\ fuel # 1
  /\ Remaining(code) >= 10
  /\ code.data[code.pos + 6] = OpByte(second)
  /\ Slice(code.data, code.pos + 6, code.pos + 10) = Immediate(4)

\* C23: GetSlot i, SetSlot i and GetSlotIndirect (its index the popped cell as a
\* usize, so that a negative cell is a huge index) return Bounds when the index is
\* not below the number of slots, and then no slot is changed and nothing is
\* pushed; with an index below it, SetSlot stores the popped cell in the slot,
\* GetSlot and GetSlotIndirect push the slot, and SetSlot i followed by GetSlot i
\* pushes the cell back; after a ResetSlots n that succeeds there are n slots, all
\* zero, so that a slot read that follows pushes 0 for an index below n and returns
\* Bounds for any other.
SlotsAreBoundsChecked ==
  /\ [][Executes({"GetSlot", "SetSlot"}) /\ HasImmediate(4) =>
          LET id == WordNat(Immediate(4))
          IN  /\ id >= Len(slots) =>
                   res' = "Bounds" /\ slots' = slots /\ stack'.data = stack.data
              /\ id < Len(slots) /\ NextOp = "SetSlot" /\ stack.pos >= 1 =>
                   /\ res' = "Running"
                   /\ slots' = [slots EXCEPT ![id + 1] = Operand(0)]
                   /\ stack' = [stack EXCEPT !.pos = stack.pos - 1]
              /\ id < Len(slots) /\ NextOp = "GetSlot" /\ stack.pos < Len(stack.data) =>
                   /\ res' = "Running"
                   /\ slots' = slots
                   /\ stack' = [pos |-> stack.pos + 1,
                                data |-> [stack.data EXCEPT ![stack.pos + 1] = slots[id + 1]]]]_vars
  /\ [][Executes({"GetSlotIndirect"}) /\ stack.pos >= 1 =>
          LET id == WordNat(Operand(0))
          IN  /\ slots' = slots
              /\ id >= Len(slots) \/ Operand(0)[8] >= 128 =>
                   res' = "Bounds" /\ stack'.data = stack.data
              /\ id < Len(slots) =>
                   /\ res' = "Running"
                   /\ stack' = [stack EXCEPT !.data[stack.pos] = slots[id + 1]]]_vars
  /\ [](ExecutesOnSameId("SetSlot", "GetSlot") /\ stack.pos >= 1
          /\ WordNat(Immediate(4)) < Len(slots) =>
          LET t == RunStep(RunStep(Cur))
          IN  /\ t.res = "Running"
              /\ t.stack = stack
              /\ t.slots[WordNat(Immediate(4)) + 1] = Operand(0))
  /\ [][Executes({"ResetSlots"}) /\ HasImmediate(4) /\ res' = "Running" =>
          /\ Len(slots') = WordNat(Immediate(4))
          /\ \A j \in 1..Len(slots') : slots'[j] = Zero64]_vars

\* SlotByNegativeIndex has written 9 to slot 1 and read it back, and GetSlotIndirect
\* has popped the negative index cell and returned Bounds.
NegativeSlotIndexRefused ==
  /\ code.data = SlotByNegativeIndex
  /\ lastOp = "GetSlotIndirect"
  /\ res = "Bounds"
  /\ Len(slots) = InitialSlots
  /\ slots[2] = NatWord(9, 8)
  /\ Live(stack) = <<NatWord(9, 8)>>

\* The low and the high 16 bits of the sum of the low 32 bits of the cells a and b,
\* and the cell that holds (a + b) mod 2^32 as a signed 32-bit integer.
SumLow(a, b) == a[1] + 256 * a[2] + b[1] + 256 * b[2]
SumHigh(a, b) == (a[3] + 256 * a[4] + b[3] + 256 * b[4] + (SumLow(a, b) \div 65536)) % 65536
SumCell(a, b) ==
  <<SumLow(a, b) % 256, (SumLow(a, b) \div 256) % 256,
    SumHigh(a, b) % 256, SumHigh(a, b) \div 256>>
  \o [i \in 1..4 |-> IF SumHigh(a, b) >= 32768 THEN 255 ELSE 0]

\* C24: I32Add on two operand cells a and b replaces them by the cell that holds
\* (a + b) mod 2^32 as a signed 32-bit integer, whatever the high halves of a and b
\* are, and never fails; Scenario A halts with an empty operand stack, and no
\* instruction of it changes the memory.
I32AddWraps ==
  /\ [][Executes({"I32Add"}) /\ stack.pos >= 2 =>
          /\ res' = "Running"
          /\ stack'.pos = stack.pos - 1
          /\ stack'.data[stack.pos - 1] = SumCell(Operand(1), Operand(0))]_vars
  /\ [][code.data = ScenarioA /\ res = "Running" => mem' = mem]_vars
  /\ [](code.data = ScenarioA /\ fuel = -1 /\ Returned => res = "Ok" /\ stack.pos = 0)

\* 0xDEADBEEF + 0xDEADBEEF has left 0xBD5B7DDE, a negative i32, sign-extended on the
\* operand stack.
I32AddWrappedToNegative ==
  /\ lastOp = "Halt"
  /\ res = "Ok"
  /\ code.data = OpRaw("I64Const", ZeroExt(DeadBeef, 8)) \o OpRaw("I64Const", ZeroExt(DeadBeef, 8))
                   \o Op("I32Add") \o Op("Halt")
  /\ Live(stack) = << <<222, 125, 91, 189, 255, 255, 255, 255>> >>

\* The sum of the u32 values a and b is 2^32 or more.
CarriesOut(a, b) ==
  a[3] + 256 * a[4] + b[3] + 256 * b[4]
    + ((a[1] + 256 * a[2] + b[1] + 256 * b[2]) \div 65536) >= 65536

\* C25: a load or store whose offset plus the low 32 bits of its address cell is
\* 2^32 or more returns Bounds, status -2, and leaves the memory and the operand
\* cells as they were, whatever the memory holds at the sum modulo 2^32; an access
\* by a negative address cell completes when the offset plus the low 32 bits of the
\* cell, plus the width, is within the memory, and a load then pushes the bytes at
\* that address.
EffectiveAddressDoesNotWrap ==
  /\ Status("Bounds") = -2
  /\ [][Executes(LoadOps \cup StoreOps) /\ HasImmediate(4) /\ OperandsPresent =>
          LET low == Trunc(AccessAddress, 4)
          IN  /\ CarriesOut(Immediate(4), low) =>
                   res' = "Bounds" /\ mem' = mem /\ stack'.data = stack.data
              /\ AccessAddress[8] >= 128 /\ ~CarriesOut(Immediate(4), low)
                   /\ WordNat(Immediate(4)) < Huge /\ WordNat(low) < Huge
                   /\ WordNat(Immediate(4)) + WordNat(low) + AccessWidth(NextOp) <= mem.len =>
                   /\ res' = "Running"
                   /\ NextOp \in LoadOps =>
                        Trunc(stack'.data[stack.pos], AccessWidth(NextOp))
                          = [i \in 1..AccessWidth(NextOp) |->
                               ReadByte(mem, WordNat(Immediate(4)) + WordNat(low) + i - 1)]]_vars

\* Scenario D has returned Bounds: the I32Load at 0xFFFFFFFC + 8 has popped its
\* address and read nothing from the memory of 1 MiB.
ScenarioDReturnedBounds ==
  /\ code.data = ScenarioD
  /\ lastOp = "I32Load"
  /\ res = "Bounds"
  /\ mem = BigMemory
  /\ stack.pos = 0
  /\ stack.data[1] = ZeroExt(TopMinus3, 8)

\* The cells of the call stack tape t below pos are frames, one on the other: the
\* two topmost cells are N, not negative, and return_ip, not after the end of the
\* code, the N cells below them are the locals, and the cells below those are
\* frames again.
RECURSIVE WellFormed(_, _)
WellFormed(t, pos) ==
  \/ pos = 0
  \/ /\ pos >= 2
     /\ WordNat(t.data[pos]) <= Len(code.data)
     /\ WordNat(t.data[pos - 1]) + 2 <= pos
     /\ WellFormed(t, pos - 2 - WordNat(t.data[pos - 1]))

\* The frames of the call stack are those of the last k calls that have not
\* returned: each ends where the call left the call stack and holds the return_ip
\* the call recorded.
RECURSIVE RecordedByCalls(_, _)
RecordedByCalls(k, pos) ==
  IF k = 0 THEN pos = 0
  ELSE /\ pos = frames[k].csAfter
       /\ pos >= 2
       /\ callStack.data[pos] = NatWord(frames[k].ret, 8)
       /\ frames[k].csBefore = pos - 2 - WordNat(callStack.data[pos - 1])
       /\ RecordedByCalls(k - 1, frames[k].csBefore)

\* No instruction has failed since the call stack was empty.
NoneFailed == runs <= 1 /\ res \in {"NotStarted", "Running", "Ok"}

\* C26: as long as no instruction has failed since the call stack was empty, the
\* live cells of the call stack are a concatenation of well-formed frames, those of
\* the calls that have not returned; an instruction that completes on well-formed
\* frames leaves well-formed frames; a Return on an empty call stack returns Bounds
\* with the code right after its opcode, and a Return that completes on such frames
\* moves the code to the return_ip the last call that has not returned recorded.
FramesAreWellFormed ==
  /\ [](NoneFailed =>
          WellFormed(callStack, callStack.pos) /\ RecordedByCalls(Len(frames), callStack.pos))
  /\ [][res = "Running" /\ res' \in {"Running", "Ok"} /\ WellFormed(callStack, callStack.pos)
          => WellFormed(callStack', callStack'.pos)]_vars
  /\ [][Executes({"Return"}) /\ callStack.pos = 0 =>
          res' = "Bounds" /\ code'.pos = code.pos + 1 /\ callStack' = callStack]_vars
  /\ [][Executes({"Return"}) /\ RecordedByCalls(Len(frames), callStack.pos)
          /\ res' = "Running" =>
          frames # <<>> /\ code'.pos = frames[Len(frames)].ret]_vars

\* In NestedCalls the frames of f and of g are on the call stack and fill it, and g
\* has set its local.
TwoFramesLive ==
  /\ code.data = NestedCalls
  /\ runs = 1
  /\ res = "Running"
  /\ lastOp = "TeeLocal"
  /\ Len(frames) = 2
  /\ callStack.pos = 6
  /\ WordNat(callStack.data[6]) = 41
  /\ WordNat(callStack.data[3]) = 20

\* The cells of the call stack that differ after the step.
Written == {i \in 1..Len(callStack.data) : callStack'.data[i] # callStack.data[i]}

\* The indexes of the locals of the top frame.
TopLocals == IF FrameLive THEN (callStack.pos - 1 - TopN)..(callStack.pos - 2) ELSE {}

\* C27: no instruction but Call, SetLocal and TeeLocal changes a cell of the call
\* stack; a Call, whether it completes or not, changes no cell below the position
\* the call stack had; SetLocal and TeeLocal change at most one cell, a local of the
\* top frame; so no instruction changes the N or the return_ip cell of a frame of a
\* call that has not returned, or a cell of a caller's frame, and when a callee
\* returns the cells of the caller's frames are what they were at the Call.
FramesAreIsolated ==
  /\ [][res = "Running" /\ NextOp \notin {"Call"} \cup LocalOps => Written = {}]_vars
  /\ [][Executes({"Call"}) => \A i \in Written : i > callStack.pos]_vars
  /\ [][Executes(LocalOps) =>
          /\ callStack'.pos = callStack.pos
          /\ Cardinality(Written) <= 1
          /\ Written \subseteq TopLocals
          /\ NextOp = "GetLocal" => Written = {}]_vars
  /\ [][res = "Running" /\ frames # <<>> /\ RecordedByCalls(Len(frames), callStack.pos) =>
          \A i \in Written :
            i > frames[Len(frames)].csBefore /\ i \notin {callStack.pos - 1, callStack.pos}]_vars
  /\ [][Executes({"Return"}) /\ Matching =>
          /\ res' = "Running"
          /\ callStack'.pos = Len(frames[Len(frames)].below)
          /\ Live(callStack') = frames[Len(frames)].below]_vars

\* CalleeWritesLocal has halted: g has written 9 to its local and left it on the
\* operand stack, and f has read 7 from its own after g returned.
CallerLocalKept ==
  /\ code.data = CalleeWritesLocal
  /\ res = "Ok"
  /\ runs = 1
  /\ Live(stack) = <<NatWord(9, 8), NatWord(7, 8)>>
  /\ Live(callStack) = <<NatWord(7, 8), NatWord(1, 8), NatWord(20, 8)>>
  /\ callStack.data[4] = NatWord(9, 8)

\* Element counts, indexes and positions to call the operations of a tape with:
\* within any tape of the model, around the end of the shorter ones, and huge.
TapeArgs == 0..9 \cup {Huge}

\* The n elements a tape operation with the result r returned.
Elements(t, r, n) == SubSeq(t.data, r.at, r.at + n - 1)

\* The contracts of the operations on the tape t.
TapeContracts(t) ==
  /\ LET r == TapeNext(t)
         b == TapePrev(r.t)
     IN  /\ r.err <=> Remaining(t) = 0
         /\ r.err => r.t.pos = t.pos
         /\ ~r.err => ~b.err /\ b.at = r.at /\ b.t = t
  /\ LET r == TapePrev(t)
     IN  /\ r.err <=> t.pos = 0
         /\ r.err => r.t.pos = t.pos
  /\ \A n \in {4, 8} :
       LET r == TapeNextWord(t, n)
       IN  /\ r.err <=> Remaining(t) < n
           /\ r.err => r.t.pos = t.pos
           /\ ~r.err => r.t.pos = t.pos + n
  /\ \A n \in TapeArgs :
       LET r == TapeNextMany(t, n)
           b == TapePrevMany(r.t, n)
           p == TapePrevMany(t, n)
           l == TapeTailMany(t, n)
           a == TapeAt(t, n)
           s == TapeSetPos(t, n)
       IN  /\ r.err <=> Remaining(t) < n
           /\ r.err => r.t.pos = t.pos
           /\ ~r.err => /\ ~b.err
                        /\ Elements(t, b, n) = Elements(t, r, n)
                        /\ Len(Elements(t, r, n)) = n
                        /\ b.t = t
           /\ p.err <=> t.pos < n
           /\ l.err <=> t.pos < n
           /\ l.t.pos = t.pos
           /\ p.err => p.t.pos = t.pos
           /\ ~p.err => /\ Elements(t, p, n) = Elements(t, l, n)
                        /\ Elements(t, p, n) = SubSeq(t.data, t.pos - n + 1, t.pos)
                        /\ p.t.pos = t.pos - n
           /\ a.err <=> n >= Len(t.data)
           /\ a.t.pos = t.pos
           /\ s.err <=> n > Len(t.data)
           /\ s.err => s.t.pos = t.pos
           /\ ~s.err => s.t.pos = n

\* C28: on the code, the operand stack and the call stack in every state, each
\* tape operation returns Bounds exactly in its failure case (next with nothing
\* remaining, next_many(n), next_u32 and next_u64 with fewer than n remaining, prev
\* at position 0, prev_many(n) and tail_many(n) with a position below n, at(i) with
\* i not below the length, set_pos(p) with p above the length) and then leaves the
\* position as it was; next and then prev, and next_many(n) and then prev_many(n),
\* return the same elements and restore the position; prev_many(n) returns the
\* slice tail_many(n) returns and decreases the position by n.
TapeOperationsKeepContracts ==
  TapeContracts(code) /\ TapeContracts(stack) /\ TapeContracts(callStack)

\* An I32Const whose immediate is cut short has returned Bounds: next_u32 found
\* fewer than four bytes and left the code right after the opcode.
ImmediateCutShort ==
  /\ res = "Bounds"
  /\ lastOp = "I32Const"
  /\ Remaining(code) \in 1..3
  /\ code.pos >= 1
  /\ code.data[code.pos] = OpByte("I32Const")

====
